---- MODULE Spec2Model ----
(***************************************************************************)
(* A model of com-impl: the run-time object emitted by #[derive(ComImpl)]  *)
(* (create_raw, the IUnknown trampolines AddRef / Release /                *)
(* QueryInterface over com_impl::Refcount), the stubs emitted by           *)
(* #[com_impl] with their panic policies, and the generator's name         *)
(* resolution for COM methods.                                             *)
(***************************************************************************)
EXTENDS Integers, Sequences, FiniteSets, TLC

(***************************************************************************)
(* Bounds of the model.                                                    *)
(***************************************************************************)
\* AddRef calls in one behaviour.
MaxAddRefs == 3
\* Payload-field writes per thread in one behaviour.
MaxWrites == 1
\* Width of u32 in the model (TLC's integers are 32 bits wide, so the
\* counter arithmetic is kept at a scaled width; usize is twice as wide).
U32Bits == 3

\* The threads that may hold references to the one object.
Threads == {"t1", "t2"}
UsizeBits == 2 * U32Bits

Pow2(n) == 2 ^ n
\* `x as u32`: truncation of a usize to u32.
AsU32(x) == x % Pow2(U32Bits)
\* u32 arithmetic of a release build: wrapping.
WrapU32(x) == x % Pow2(U32Bits)
\* AtomicUsize arithmetic: fetch_add / fetch_sub wrap around.
WrapUsize(x) == x % Pow2(UsizeBits)

Max(a, b) == IF a >= b THEN a ELSE b

(***************************************************************************)
(* com_impl::Refcount (src/com-impl/src/lib.rs)                            *)
(***************************************************************************)
\* impl Default for Refcount: AtomicUsize::new(1)
RefcountDefault == 1

\* The memory orderings the two operations pass to the atomic.
AddRefOrdering == "Acquire"
ReleaseOrdering == "Release"

\* Which side of a read-modify-write an ordering covers.
HasAcquire(o) == o \in {"Acquire", "AcqRel", "SeqCst"}
HasRelease(o) == o \in {"Release", "AcqRel", "SeqCst"}

\* Refcount::add_ref: fetch_add(1, Acquire) as u32 + 1.
\* new: the stored counter afterwards; ret: the value returned.
add_ref_off_by_one(c) == [new |-> WrapUsize(c + 1), ret |-> WrapU32(AsU32(c))]
add_ref(c) == [new |-> WrapUsize(c + 1), ret |-> WrapU32(AsU32(c) + 1)]

\* Refcount::release: fetch_sub(1, Release) as u32 - 1.
release_no_decrement(c) == [new |-> c, ret |-> WrapU32(AsU32(c) - 1)]
release(c) == [new |-> WrapUsize(c - 1), ret |-> WrapU32(AsU32(c) - 1)]

\* Release trampoline: `if count == 0 { Box::from_raw(ptr); }`
ReleaseFreesAtOne(cnt) == cnt <= 1
ReleaseFreesNever(cnt) == cnt < 0
ReleaseFrees(cnt) == cnt = 0

(***************************************************************************)
(* Interface Set of a #[derive(ComImpl)] struct                            *)
(* (src/derive-com-impl/src/derive.rs)                                     *)
(***************************************************************************)
\* Type names are sequences of tokens, so that the "Vtbl" suffix test and
\* its removal are computed: IDWriteFontFileStreamVtbl is
\* <<"IDWriteFontFileStream", "Vtbl">>.
IUnknownName == <<"IUnknown">>
StreamName == <<"IDWriteFontFileStream">>
LoaderName == <<"IDWriteFontFileLoader">>

\* ComImpl::iunknown_path
iunknown_path == IUnknownName

\* s.ends_with("Vtbl")
ends_with_Vtbl(s) == Len(s) > 0 /\ s[Len(s)] = "Vtbl"

Ok(v) == [ok |-> TRUE, val |-> v]
Err(m) == [ok |-> FALSE, err |-> m]

\* The absence of an #[interfaces(..)] attribute on the struct.
NoInterfacesAttr == [present |-> FALSE, items |-> <<>>]
InterfacesAttr(items) == [present |-> TRUE, items |-> items]

\* ComImpl::determine_interfaces. schema.interfaces is the #[interfaces]
\* attribute (or its absence), schema.vtbl_ty the type argument of the
\* VTable<..> member. Ident::new(nonv, ..) panics when nothing is left of
\* the name once "Vtbl" is cut off.
determine_interfaces_no_base(schema) ==
    IF schema.interfaces.present
    THEN Ok(schema.interfaces.items)
    ELSE IF ends_with_Vtbl(schema.vtbl_ty)
         THEN LET nonv == SubSeq(schema.vtbl_ty, 1, Len(schema.vtbl_ty) - 1)
              IN  IF nonv = <<>>
                  THEN [ok |-> FALSE, panic |-> "not a valid Ident"]
                  ELSE Ok(<<nonv>>)
         ELSE Err("Could not determine the COM interfaces you would like to implement.")
determine_interfaces_adds_vtbl(schema) ==
    IF schema.interfaces.present
    THEN Ok(<<iunknown_path>> \o schema.interfaces.items
                \o IF ends_with_Vtbl(schema.vtbl_ty)
                   THEN <<SubSeq(schema.vtbl_ty, 1, Len(schema.vtbl_ty) - 1)>>
                   ELSE <<>>)
    ELSE IF ends_with_Vtbl(schema.vtbl_ty)
         THEN LET nonv == SubSeq(schema.vtbl_ty, 1, Len(schema.vtbl_ty) - 1)
              IN  IF nonv = <<"IUnknown">>
                  THEN Ok(<<iunknown_path>>)
                  ELSE IF nonv = <<>>
                       THEN [ok |-> FALSE, panic |-> "not a valid Ident"]
                       ELSE Ok(<<iunknown_path, nonv>>)
         ELSE Err("Could not determine the COM interfaces you would like to implement.")
determine_interfaces(schema) ==
    IF schema.interfaces.present
    THEN Ok(<<iunknown_path>> \o schema.interfaces.items)
    ELSE IF ends_with_Vtbl(schema.vtbl_ty)
         THEN LET nonv == SubSeq(schema.vtbl_ty, 1, Len(schema.vtbl_ty) - 1)
              IN  IF nonv = <<"IUnknown">>
                  THEN Ok(<<iunknown_path>>)
                  ELSE IF nonv = <<>>
                       THEN [ok |-> FALSE, panic |-> "not a valid Ident"]
                       ELSE Ok(<<iunknown_path, nonv>>)
         ELSE Err("Could not determine the COM interfaces you would like to implement.")

\* The struct declarations the model draws from.
InterfacesAttrs ==
    { NoInterfacesAttr,
      InterfacesAttr(<<>>),
      InterfacesAttr(<<StreamName>>),
      InterfacesAttr(<<LoaderName>>),
      InterfacesAttr(<<StreamName, LoaderName>>) }
VtblTypes ==
    { <<"IUnknown", "Vtbl">>,
      <<"IDWriteFontFileStream", "Vtbl">>,
      <<"IDWriteFontFileLoader", "Vtbl">>,
      <<"IDWriteFontFileStream">>,
      <<"Vtbl">> }
Schemas == [interfaces : InterfacesAttrs, vtbl_ty : VtblTypes]

\* <T as winapi::Interface>::uuidof(): the GUID of an interface.
uuidof(iface) ==
    CASE iface = IUnknownName -> "00000000-0000-0000-c000-000000000046"
      [] iface = StreamName   -> "6d4865fe-0ab8-4d91-8f62-5dd6be34a3e0"
      [] iface = LoaderName   -> "727cad4e-d6af-4c9e-8a08-d695b11caa49"
      [] OTHER                -> "00000000-0000-0000-0000-000000000000"

\* The identifiers a caller may pass as riid: those of the three interfaces
\* above and IDispatch's, which no struct of the model implements.
IIDs ==
    { uuidof(IUnknownName), uuidof(StreamName), uuidof(LoaderName),
      "00020400-0000-0000-c000-000000000046" }

\* winapi::shared::guiddef::IsEqualIID
IsEqualIID(a, b) == a = b

\* The identifiers of an Interface Set.
IIDsOf(ifaces) == { uuidof(ifaces[i]) : i \in 1..Len(ifaces) }

\* __com_impl__IUnknown__QueryInterface. ppv_null: `ppv.is_null()`; slot:
\* the content of *ppv before the call; cnt: the stored reference count.
\* Yields the status, the content of *ppv and the reference count after
\* the call, and whether a null ppv was written through.
QueryInterface_unchecked(ifaces, this, riid, ppv_null, slot, cnt) ==
    IF \E i \in 1..Len(ifaces) : IsEqualIID(riid, uuidof(ifaces[i]))
    THEN [hr |-> "S_OK", slot |-> this, count |-> cnt, null_write |-> ppv_null]
    ELSE [hr |-> "E_NOINTERFACE", slot |-> "null", count |-> cnt,
          null_write |-> ppv_null]
QueryInterface_keeps_slot(ifaces, this, riid, ppv_null, slot, cnt) ==
    IF ppv_null
    THEN [hr |-> "E_POINTER", slot |-> slot, count |-> cnt, null_write |-> FALSE]
    ELSE IF \E i \in 1..Len(ifaces) : IsEqualIID(riid, uuidof(ifaces[i]))
         THEN [hr |-> "S_OK", slot |-> this, count |-> cnt, null_write |-> FALSE]
         ELSE [hr |-> "E_NOINTERFACE", slot |-> slot, count |-> cnt,
               null_write |-> FALSE]
QueryInterface_addrefs(ifaces, this, riid, ppv_null, slot, cnt) ==
    IF ppv_null
    THEN [hr |-> "E_POINTER", slot |-> slot, count |-> cnt, null_write |-> FALSE]
    ELSE IF \E i \in 1..Len(ifaces) : IsEqualIID(riid, uuidof(ifaces[i]))
         THEN [hr |-> "S_OK", slot |-> this, count |-> WrapUsize(cnt + 1),
               null_write |-> FALSE]
         ELSE [hr |-> "E_NOINTERFACE", slot |-> "null", count |-> cnt,
               null_write |-> FALSE]
QueryInterface(ifaces, this, riid, ppv_null, slot, cnt) ==
    IF ppv_null
    THEN [hr |-> "E_POINTER", slot |-> slot, count |-> cnt, null_write |-> FALSE]
    ELSE IF \E i \in 1..Len(ifaces) : IsEqualIID(riid, uuidof(ifaces[i]))
         THEN [hr |-> "S_OK", slot |-> this, count |-> cnt, null_write |-> FALSE]
         ELSE [hr |-> "E_NOINTERFACE", slot |-> "null", count |-> cnt,
               null_write |-> FALSE]

(***************************************************************************)
(* The run-time object: one instance, shared by the threads.               *)
(***************************************************************************)
VARIABLES
    obj,        \* "none" before create_raw, then "live", then "freed"
    interfaces, \* the Interface Set compiled into QueryInterface
    payload,    \* the payload fields
    count,      \* Refcount.count, the AtomicUsize
    owned,      \* owned[t]: references thread t owns
    pc,         \* pc[t]: "idle", or "released" between Release's fetch_sub
                \* and its `if count == 0`
    local,      \* local[t]: `count` inside thread t's Release
    nAddRef,    \* completed add_ref operations
    nRelease,   \* completed release operations
    shape,      \* the history of calls so far: "A" AddRef only, "R" AddRefs
                \* followed by Releases, "X" anything else
    lastCall,   \* the last AddRef / Release and the value it returns
    freeCount,  \* executions of Box::from_raw(ptr)
    freedOn,    \* the `count` values on which Box::from_raw was executed
    uaf,        \* a trampoline touched the object after it was freed
    vc,         \* vc[t][u]: writes of thread u that happen-before thread t
    sync,       \* the clock carried by the counter's release sequence
    freeClock,  \* the freeing thread's clock when it ran Box::from_raw
    qi,         \* the last QueryInterface call and its outcome
    gen,        \* the method given to #[com_impl] and what was generated
    stub,       \* a generated stub and the call in progress through it
    exp         \* one expansion of #[derive(ComImpl)] or #[com_impl]: its
                \* input, what parsing made of it and the tokens emitted

vars == <<obj, interfaces, payload, count, owned, pc, local, nAddRef, nRelease,
          shape, lastCall, freeCount, freedOn, uaf, vc, sync, freeClock, qi,
          gen, stub, exp>>

ZeroClock == [u \in Threads |-> 0]
Join(a, b) == [u \in Threads |-> Max(a[u], b[u])]

\* A read-modify-write on the counter by a thread whose clock is tvc, the
\* counter's release sequence carrying s. An acquire ordering makes the
\* read side synchronize with the releases read from; a release ordering
\* makes the write side publish the thread's clock; a read-modify-write
\* that is not a release still continues the release sequence.
Rmw(order, tvc, s) ==
    LET acquired == IF HasAcquire(order) THEN Join(tvc, s) ELSE tvc
    IN  [vc |-> acquired,
         sync |-> IF HasRelease(order) THEN Join(s, acquired) ELSE s]

\* The constructor arguments the model draws from.
PayloadArgs == { <<"data">>, <<"write_time", "file_data">> }

\* create_raw: Box::new(Self { vtbl, refcount: Default::default(), fields })
create_raw_zero(args) == [refcount |-> RefcountDefault - 1, payload |-> args]
create_raw(args) == [refcount |-> RefcountDefault, payload |-> args]

NoCall == [op |-> "none", ret |-> 0]
NoQuery == [op |-> "none"]
NoGen == [phase |-> "none"]
NoStub == [pc |-> "none"]
NoExp == [phase |-> "none"]

Init ==
    /\ obj = "none"
    /\ interfaces = <<>>
    /\ payload = <<>>
    /\ count = 0
    /\ owned = [t \in Threads |-> 0]
    /\ pc = [t \in Threads |-> "idle"]
    /\ local = [t \in Threads |-> 0]
    /\ nAddRef = 0
    /\ nRelease = 0
    /\ shape = "A"
    /\ lastCall = NoCall
    /\ freeCount = 0
    /\ freedOn = {}
    /\ uaf = FALSE
    /\ vc = [t \in Threads |-> ZeroClock]
    /\ sync = ZeroClock
    /\ freeClock = ZeroClock
    /\ qi = NoQuery
    /\ gen = NoGen
    /\ stub = NoStub
    /\ exp = NoExp

\* Thread t constructs the object from a struct declaration on which
\* #[derive(ComImpl)] succeeded, and owns the reference create_raw returns.
CreateRaw(t, schema, args) ==
    /\ obj = "none"
    /\ determine_interfaces(schema).ok
    /\ obj' = "live"
    /\ interfaces' = determine_interfaces(schema).val
    /\ payload' = create_raw(args).payload
    /\ count' = create_raw(args).refcount
    /\ owned' = [owned EXCEPT ![t] = 1]
    /\ UNCHANGED <<pc, local, nAddRef, nRelease, shape, lastCall, freeCount,
                   freedOn, uaf, vc, sync, freeClock, qi,
                   gen, stub, exp>>

\* __com_impl__IUnknown__AddRef, called by a thread that owns a reference.
AddRef(t) ==
    /\ owned[t] > 0
    /\ pc[t] = "idle"
    /\ nAddRef < MaxAddRefs
    /\ LET r == add_ref(count)
           m == Rmw(AddRefOrdering, vc[t], sync)
       IN  /\ count' = r.new
           /\ lastCall' = [op |-> "AddRef", ret |-> r.ret]
           /\ vc' = [vc EXCEPT ![t] = m.vc]
           /\ sync' = m.sync
    /\ owned' = [owned EXCEPT ![t] = @ + 1]
    /\ nAddRef' = nAddRef + 1
    /\ shape' = IF shape = "A" THEN "A" ELSE "X"
    /\ uaf' = (uaf \/ obj = "freed")
    /\ UNCHANGED <<obj, interfaces, payload, pc, local, nRelease, freeCount,
                   freedOn, freeClock, qi,
                   gen, stub, exp>>

\* __com_impl__IUnknown__Release up to `(*ptr).refcount.release()`, called
\* by a thread for a reference it owns.
ReleaseDec(t) ==
    /\ owned[t] > 0
    /\ pc[t] = "idle"
    /\ LET r == release(count)
           m == Rmw(ReleaseOrdering, vc[t], sync)
       IN  /\ count' = r.new
           /\ local' = [local EXCEPT ![t] = r.ret]
           /\ lastCall' = [op |-> "Release", ret |-> r.ret]
           /\ vc' = [vc EXCEPT ![t] = m.vc]
           /\ sync' = m.sync
    /\ pc' = [pc EXCEPT ![t] = "released"]
    /\ owned' = [owned EXCEPT ![t] = @ - 1]
    /\ nRelease' = nRelease + 1
    /\ shape' = IF shape \in {"A", "R"} THEN "R" ELSE "X"
    /\ uaf' = (uaf \/ obj = "freed")
    /\ UNCHANGED <<obj, interfaces, payload, nAddRef, freeCount, freedOn,
                   freeClock, qi,
                   gen, stub, exp>>

\* The rest of Release: `if count == 0 { Box::from_raw(ptr); }  count`.
\* Dropping the box reads the payload fields and frees the storage.
ReleaseFinish(t) ==
    /\ pc[t] = "released"
    /\ pc' = [pc EXCEPT ![t] = "idle"]
    /\ IF ReleaseFrees(local[t])
       THEN /\ obj' = "freed"
            /\ freeCount' = freeCount + 1
            /\ freedOn' = freedOn \cup {local[t]}
            /\ freeClock' = vc[t]
            /\ uaf' = (uaf \/ obj = "freed")
       ELSE UNCHANGED <<obj, freeCount, freedOn, freeClock, uaf>>
    /\ UNCHANGED <<interfaces, payload, count, owned, local, nAddRef, nRelease,
                   shape, lastCall, vc, sync, qi,
                   gen, stub, exp>>

\* A thread hands one of its references to another thread; the hand-over
\* itself is synchronized (a channel, a thread start).
Transfer(t, u) ==
    /\ t # u
    /\ owned[t] > 0
    /\ pc[t] = "idle"
    /\ owned' = [owned EXCEPT ![t] = @ - 1, ![u] = @ + 1]
    /\ vc' = [vc EXCEPT ![u] = Join(vc[u], vc[t])]
    /\ UNCHANGED <<obj, interfaces, payload, count, pc, local, nAddRef, nRelease,
                   shape, lastCall, freeCount, freedOn, uaf, sync, freeClock, qi,
                   gen, stub, exp>>

\* A method body run by a thread that owns a reference writes a payload
\* field.
PayloadWrite(t) ==
    /\ owned[t] > 0
    /\ pc[t] = "idle"
    /\ vc[t][t] < MaxWrites
    /\ payload' = [payload EXCEPT ![1] = "written"]
    /\ vc' = [vc EXCEPT ![t][t] = @ + 1]
    /\ uaf' = (uaf \/ obj = "freed")
    /\ UNCHANGED <<obj, interfaces, count, owned, pc, local, nAddRef, nRelease,
                   shape, lastCall, freeCount, freedOn, sync, freeClock, qi,
                   gen, stub, exp>>

\* __com_impl__IUnknown__QueryInterface, called by a thread that owns a
\* reference, with a fresh output slot or a null one.
Query(t, riid, ppv_null) ==
    /\ owned[t] > 0
    /\ pc[t] = "idle"
    /\ LET r == QueryInterface(interfaces, "this", riid, ppv_null, "uninit", count)
       IN  /\ count' = r.count
           /\ qi' = [op |-> "QueryInterface", riid |-> riid, ppv_null |-> ppv_null,
                     hr |-> r.hr, slot |-> r.slot, null_write |-> r.null_write,
                     before |-> count, after |-> r.count]
    /\ UNCHANGED <<obj, interfaces, payload, owned, pc, local, nAddRef, nRelease,
                   shape, lastCall, freeCount, freedOn, uaf, vc, sync, freeClock,
                   gen, stub, exp>>

\* The object's lifetime under concurrent reference counting.
Next ==
    \/ \E t \in Threads, schema \in Schemas, args \in PayloadArgs :
          CreateRaw(t, schema, args)
    \/ \E t \in Threads : AddRef(t)
    \/ \E t \in Threads : ReleaseDec(t)
    \/ \E t \in Threads : ReleaseFinish(t)
    \/ \E t, u \in Threads : Transfer(t, u)
    \/ \E t \in Threads : PayloadWrite(t)

Spec == Init /\ [][Next]_vars

\* Identity queries on an object whose references are taken and dropped.
NextQuery ==
    \/ \E t \in Threads, schema \in Schemas, args \in PayloadArgs :
          CreateRaw(t, schema, args)
    \/ \E t \in Threads : AddRef(t)
    \/ \E t \in Threads : ReleaseDec(t)
    \/ \E t \in Threads : ReleaseFinish(t)
    \/ \E t \in Threads, riid \in IIDs, ppv_null \in BOOLEAN :
          Query(t, riid, ppv_null)

SpecQuery == Init /\ [][NextQuery]_vars

(***************************************************************************)
(* #[com_impl]: the methods of an interface block                          *)
(* (src/derive-com-impl/src/com_impl.rs)                                   *)
(***************************************************************************)
\* Bounds of the generator's inputs.
\* Characters in a method identifier or a #[com_name] value.
MaxIdentLen == 3
\* Attributes on one method.
MaxAttrs == 2
\* Calls made through one stub.
MaxStubCalls == 2

\* Identifiers are sequences of characters.
LowerLetters ==
    <<"a", "b", "c", "d", "e", "f", "g", "h", "i", "j", "k", "l", "m",
      "n", "o", "p", "q", "r", "s", "t", "u", "v", "w", "x", "y", "z">>
UpperLetters ==
    <<"A", "B", "C", "D", "E", "F", "G", "H", "I", "J", "K", "L", "M",
      "N", "O", "P", "Q", "R", "S", "T", "U", "V", "W", "X", "Y", "Z">>
DigitChars == {"0", "1", "2", "3", "4", "5", "6", "7", "8", "9"}

IsLower(c) == \E i \in 1..26 : LowerLetters[i] = c
IsUpper(c) == \E i \in 1..26 : UpperLetters[i] = c
IsDigit(c) == c \in DigitChars
\* A letter outside ASCII is a character of an identifier as well; the
\* model has one, written by its code point.
IsOtherLetter(c) == c = "U+00E9"

\* char::to_ascii_uppercase
to_ascii_uppercase(c) ==
    IF IsLower(c) THEN UpperLetters[CHOOSE i \in 1..26 : LowerLetters[i] = c] ELSE c

\* What the language accepts as an identifier: a letter or an underscore,
\* then letters, digits and underscores; a lone underscore is none.
IsIdentStart(c) == IsLower(c) \/ IsUpper(c) \/ IsOtherLetter(c) \/ c = "_"
IsIdentContinue(c) == IsIdentStart(c) \/ IsDigit(c)
IsIdent(cs) ==
    /\ Len(cs) > 0
    /\ IsIdentStart(cs[1])
    /\ \A i \in 1..Len(cs) : IsIdentContinue(cs[i])
    /\ cs # <<"_">>

\* Results of the generator's steps: a value, a generation error (the
\* Err(String) that becomes compile_error!), or a panic of the macro.
Panic(m) == [ok |-> FALSE, panic |-> m]
IsErr(r) == ~r.ok /\ "err" \in DOMAIN r
IsPanic(r) == ~r.ok /\ "panic" \in DOMAIN r

\* Ident::new panics on a string that is not an identifier.
Ident_new(cs) == IF IsIdent(cs) THEN Ok(cs) ELSE Panic("not a valid Ident")

\* Attributes. path: the segments of the attribute's path; meta: what
\* parse_meta() yields ("Word", "List", "NameValue", or "Invalid" when it
\* fails); lit: the kind of a NameValue's literal; value: its content;
\* nested: the items of a List.
Attr(path, meta, lit, value, nested) ==
    [path |-> path, meta |-> meta, lit |-> lit, value |-> value, nested |-> nested]
\* #[com_name = "<value>"]
ComNameAttr(value) == Attr(<<"com_name">>, "NameValue", "Str", value, <<>>)
\* #[com_name(X)]
ComNameListAttr == Attr(<<"com_name">>, "List", "", <<>>, <<>>)
\* #[panic(abort)]
PanicAbortAttr ==
    Attr(<<"panic">>, "List", "", <<>>,
         <<[kind |-> "Word", ident |-> "abort", lit |-> "", value |-> <<>>]>>)
\* #[panic(result = "<expr>")]
PanicResultAttr(expr) ==
    Attr(<<"panic">>, "List", "", <<>>,
         <<[kind |-> "NameValue", ident |-> "result", lit |-> "Str", value |-> expr]>>)
\* #[panic]
PanicWordAttr == Attr(<<"panic">>, "Word", "", <<>>, <<>>)
\* #[panic(ignore)]
PanicIgnoreAttr ==
    Attr(<<"panic">>, "List", "", <<>>,
         <<[kind |-> "Word", ident |-> "ignore", lit |-> "", value |-> <<>>]>>)
\* A doc comment: #[doc = "..."]
DocAttr == Attr(<<"doc">>, "NameValue", "Str", <<>>, <<>>)

\* attr.path.segments.len() == 1 && attr.path.segments[0].ident == name
PathIs(attr, name) == Len(attr.path) = 1 /\ attr.path[1] = name

\* The conversion loop of determine_name: the identifier's characters
\* from position i on, with the name built so far.
RECURSIVE convert_name(_, _, _, _)
convert_name(orig_name, i, is_start, name) ==
    IF i > Len(orig_name)
    THEN Ident_new(name)
    ELSE LET c == orig_name[i]
         IN  CASE IsDigit(c) -> convert_name(orig_name, i + 1, is_start, Append(name, c))
               [] IsUpper(c) -> convert_name(orig_name, i + 1, is_start, Append(name, c))
               [] IsLower(c) /\ ~is_start ->
                      convert_name(orig_name, i + 1, is_start, Append(name, c))
               [] IsLower(c) /\ is_start ->
                      convert_name(orig_name, i + 1, FALSE,
                                   Append(name, to_ascii_uppercase(c)))
               [] c = "_" -> convert_name(orig_name, i + 1, TRUE, name)
               [] OTHER ->
                      Err("Identifier ({}) that wouldn't be used in a COM function name found.")

\* The attribute loop of determine_name, from attribute i on.
RECURSIVE name_from_attrs(_, _, _)
name_from_attrs(ident, attrs, i) ==
    IF i > Len(attrs)
    THEN convert_name(ident, 1, TRUE, <<>>)
    ELSE LET attr == attrs[i]
         IN  IF PathIs(attr, "com_name")
             THEN IF attr.meta = "Invalid"
                  THEN Err("parse_meta")
                  ELSE IF attr.meta = "NameValue" /\ attr.lit = "Str"
                       THEN Ident_new(attr.value)
                       ELSE Err("Invalid syntax for #[com_name] attribute")
             ELSE IF ~PathIs(attr, "panic")
                  THEN Err("Invalid attribute #[{}] on COM method")
                  ELSE name_from_attrs(ident, attrs, i + 1)

\* ComFunction::determine_name
determine_name_always_derived(item) == convert_name(item.ident, 1, TRUE, <<>>)
determine_name_any_order(item) ==
    IF \E i \in 1..Len(item.attrs) :
          ~PathIs(item.attrs[i], "com_name") /\ ~PathIs(item.attrs[i], "panic")
    THEN Err("Invalid attribute #[{}] on COM method")
    ELSE name_from_attrs(item.ident, item.attrs, 1)
determine_name(item) == name_from_attrs(item.ident, item.attrs, 1)

\* The expressions a #[panic(result = "..")] may carry, as token
\* sequences, and what syn::parse_str::<Expr> makes of them: a path
\* expression parses, a dangling operator does not.
ResultExprs == { <<"winerror", "::", "E_NOTIMPL">>, <<"E_FAIL", "+">> }
parse_expr(tokens) ==
    IF /\ Len(tokens) % 2 = 1
       /\ \A i \in 1..Len(tokens) : (i % 2 = 0) <=> (tokens[i] \in {"::", "+"})
    THEN Ok(tokens)
    ELSE Err("Error parsing #[panic] attribute: {}")
\* The value a parsed fallback expression evaluates to: the constant its
\* path names.
eval_expr(tokens) == tokens[Len(tokens)]

\* enum OnPanic
OnPanicNothing == [kind |-> "Nothing", expr |-> <<>>]
OnPanicAbort == [kind |-> "Abort", expr |-> <<>>]
OnPanicHresult(expr) == [kind |-> "Hresult", expr |-> expr]

\* The attribute loop of determine_panic_behavior, from attribute i on.
RECURSIVE panic_from_attrs(_, _)
panic_from_attrs(attrs, i) ==
    IF i > Len(attrs)
    THEN Ok(OnPanicNothing)
    ELSE LET attr == attrs[i]
         IN  IF ~PathIs(attr, "panic")
             THEN panic_from_attrs(attrs, i + 1)
             ELSE IF attr.meta = "Invalid"
                  THEN Err("parse_meta")
                  ELSE IF ~(attr.meta = "List" /\ Len(attr.nested) = 1)
                       THEN Err("Incorrect syntax for #[panic]. See documentation for #[com_impl]")
                       ELSE LET n == attr.nested[1]
                            IN  IF n.kind = "Word" /\ n.ident = "abort"
                                THEN Ok(OnPanicAbort)
                                ELSE IF n.kind = "NameValue" /\ n.lit = "Str"
                                        /\ n.ident = "result"
                                     THEN IF parse_expr(n.value).ok
                                          THEN Ok(OnPanicHresult(parse_expr(n.value).val))
                                          ELSE parse_expr(n.value)
                                     ELSE Err("Incorrect syntax for #[panic]. See documentation for #[com_impl].")

\* ComFunction::determine_panic_behavior
determine_panic_behavior(item) == panic_from_attrs(item.attrs, 1)

\* A method of an impl block: its identifier and attributes, and its
\* signature: the first argument ("&self", "&mut self", "self" by value,
\* or "none" when there is no receiver), the number of generic parameters,
\* and whether it is variadic, has a where clause, is const, is async.
PlainMethod(ident, attrs) ==
    [kind |-> "Method", ident |-> ident, attrs |-> attrs, receiver |-> "&self",
     variadic |-> FALSE, generics |-> 0, where_clause |-> FALSE,
     constness |-> FALSE, asyncness |-> FALSE]

\* ComFunction::validate_sig
validate_sig_allows_generics(item) ==
    IF item.variadic
    THEN Err("Variadic methods are not allowed in COM")
    ELSE IF item.where_clause
         THEN Err("Where clauses are not allowed on COM methods.")
         ELSE IF item.constness
              THEN Err("COM methods may not be const fns")
              ELSE IF item.asyncness
                   THEN Err("COM methods may not be async fns")
                   ELSE Ok(<<>>)
validate_sig(item) ==
    IF item.variadic
    THEN Err("Variadic methods are not allowed in COM")
    ELSE IF item.generics > 0
         THEN Err("Generic types and lifetime parameters are not allowed on COM methods.")
         ELSE IF item.where_clause
              THEN Err("Where clauses are not allowed on COM methods.")
              ELSE IF item.constness
                   THEN Err("COM methods may not be const fns")
                   ELSE IF item.asyncness
                        THEN Err("COM methods may not be async fns")
                        ELSE Ok(<<>>)

\* ComFunction::determine_mut: the first argument must be `&self` or
\* `&mut self`.
determine_mut(item) ==
    IF item.receiver \in {"&self", "&mut self"}
    THEN Ok(item.receiver = "&mut self")
    ELSE Err("A COM method must take self by ref. (fn {})")

\* ComFunction::parse: validate_sig, determine_mut, determine_name, then
\* determine_panic_behavior, each `?`-propagated. (determine_unsafe and
\* determine_abi cannot fail, and parse_args fails on no argument a parsed
\* method can have.)
ComFunction_parse(item) ==
    LET sig == validate_sig(item)
        is_mut == determine_mut(item)
        com_name == determine_name(item)
        panic_behavior == determine_panic_behavior(item)
    IN  IF ~sig.ok THEN sig
        ELSE IF ~is_mut.ok THEN is_mut
        ELSE IF ~com_name.ok THEN com_name
        ELSE IF ~panic_behavior.ok THEN panic_behavior
        ELSE Ok([is_mut |-> is_mut.val, com_name |-> com_name.val,
                 panic_behavior |-> panic_behavior.val])

\* ComFunction::stub_name: format!("__com_impl_stub__{}__{}", ty, com_name)
stub_name(com_ty_name, com_name) ==
    <<"__com_impl_stub__">> \o com_ty_name \o <<"__">> \o com_name
\* ComFunction::body_name: format!("__com_impl_body__{}__{}", ty, com_name)
body_name(com_ty_name, com_name) ==
    <<"__com_impl_body__">> \o com_ty_name \o <<"__">> \o com_name
\* ComFunction::quote_vtbl_entry: `#com_name: Self::#stub_name`
quote_vtbl_entry(com_ty_name, com_name) ==
    [slot |-> com_name, value |-> stub_name(com_ty_name, com_name)]
\* ComFunction::abort_message
abort_message(com_ty_name, com_name) ==
    <<"User-implemented COM method for ">> \o com_ty_name \o <<"::">> \o com_name
        \o <<" panicked. Aborting!">>

\* ComFunction::quote_stub_call: what the emitted stub does with the
\* outcome of `inner` (the call of the body). next: where the stub goes;
\* result: the value it returns, if it returns; caught: whether a
\* catch_unwind caught the panic.
quote_stub_call_unguarded(panic_behavior, outcome) ==
    IF outcome.panicked
    THEN [next |-> "escaped", result |-> "none", caught |-> FALSE]
    ELSE [next |-> "returned", result |-> outcome.value, caught |-> FALSE]
quote_stub_call(panic_behavior, outcome) ==
    CASE panic_behavior.kind = "Nothing" ->
            IF outcome.panicked
            THEN [next |-> "escaped", result |-> "none", caught |-> FALSE]
            ELSE [next |-> "returned", result |-> outcome.value, caught |-> FALSE]
      [] panic_behavior.kind = "Abort" ->
            IF outcome.panicked
            THEN [next |-> "abort_write", result |-> "none", caught |-> TRUE]
            ELSE [next |-> "returned", result |-> outcome.value, caught |-> FALSE]
      [] panic_behavior.kind = "Hresult" ->
            IF outcome.panicked
            THEN [next |-> "fallback", result |-> "none", caught |-> TRUE]
            ELSE [next |-> "returned", result |-> outcome.value, caught |-> FALSE]

\* The inputs of the generator the model draws from.
RECURSIVE SeqsUpTo(_, _)
SeqsUpTo(S, n) ==
    IF n = 0 THEN {<<>>}
    ELSE LET shorter == SeqsUpTo(S, n - 1)
         IN  shorter \cup { Append(q, x) : q \in shorter, x \in S }

IdentAlphabet == {"a", "A", "1", "_", "U+00E9"}
ExampleIdents ==
    { <<"g", "e", "t", "_", "f", "i", "l", "e", "_", "s", "i", "z", "e">>,
      <<"r", "e", "a", "d", "_", "f", "i", "l", "e", "_",
        "f", "r", "a", "g", "m", "e", "n", "t">> }
Idents == { cs \in SeqsUpTo(IdentAlphabet, MaxIdentLen) : IsIdent(cs) } \cup ExampleIdents
OverrideValues == { <<"a", "_", "a">>, <<"1">> }
AttrChoices ==
    { ComNameAttr(v) : v \in OverrideValues }
        \cup { PanicResultAttr(e) : e \in ResultExprs }
        \cup { ComNameListAttr, PanicAbortAttr, PanicWordAttr, PanicIgnoreAttr, DocAttr }
AttrLists == SeqsUpTo(AttrChoices, MaxAttrs)
\* The methods given to the generator: every identifier with at most one
\* attribute, and the shortest and the example identifiers with every
\* attribute list.
Items ==
    { PlainMethod(n.ident, n.attrs) :
        n \in [ident : Idents, attrs : SeqsUpTo(AttrChoices, 1)]
                 \cup [ident : { cs \in Idents : Len(cs) = 1 } \cup ExampleIdents,
                       attrs : AttrLists] }
\* The methods stubs are generated for and called through.
StubItems == { PlainMethod(n.ident, n.attrs) : n \in [ident : ExampleIdents, attrs : AttrLists] }
\* The values a method body may return.
BodyValues == { "S_OK", "E_INVALIDARG" }

\* ComFunction::parse on one method of an `unsafe impl IDWriteFontFileStream`.
ParseMethod(item) ==
    /\ gen.phase = "none"
    /\ gen' = [phase |-> "parsed", item |-> item, com_ty_name |-> StreamName,
               name |-> determine_name(item),
               result |-> ComFunction_parse(item),
               stub |-> <<>>, body |-> <<>>, entry |-> <<>>]
    /\ UNCHANGED <<obj, interfaces, payload, count, owned, pc, local, nAddRef,
                   nRelease, shape, lastCall, freeCount, freedOn, uaf, vc, sync,
                   freeClock, qi, stub, exp>>

\* ComImpl::quote for a method that parsed: its stub, body and table entry.
QuoteMethod ==
    /\ gen.phase = "parsed"
    /\ gen.result.ok
    /\ gen' = [gen EXCEPT
                 !.phase = "quoted",
                 !.stub = stub_name(gen.com_ty_name, gen.result.val.com_name),
                 !.body = body_name(gen.com_ty_name, gen.result.val.com_name),
                 !.entry = quote_vtbl_entry(gen.com_ty_name, gen.result.val.com_name)]
    /\ UNCHANGED <<obj, interfaces, payload, count, owned, pc, local, nAddRef,
                   nRelease, shape, lastCall, freeCount, freedOn, uaf, vc, sync,
                   freeClock, qi, stub, exp>>

NextName ==
    \/ \E item \in Items : ParseMethod(item)
    \/ QuoteMethod

SpecName == Init /\ [][NextName]_vars

\* The stub emitted for a method that parsed.
StubGenerate(item) ==
    /\ stub.pc = "none"
    /\ ComFunction_parse(item).ok
    /\ LET f == ComFunction_parse(item).val
       IN  stub' = [pc |-> "ready",
                    panic_behavior |-> f.panic_behavior,
                    message |-> abort_message(StreamName, f.com_name),
                    calls |-> 0, panicked |-> FALSE, caught |-> FALSE,
                    body_value |-> "none", result |-> "none",
                    stderr |-> <<>>, write_attempted |-> FALSE,
                    process |-> "running"]
    /\ UNCHANGED <<obj, interfaces, payload, count, owned, pc, local, nAddRef,
                   nRelease, shape, lastCall, freeCount, freedOn, uaf, vc, sync,
                   freeClock, qi, gen, exp>>

\* The foreign caller calls through the dispatch table slot.
StubCall ==
    /\ stub.pc \in {"ready", "returned"}
    /\ stub.calls < MaxStubCalls
    /\ stub' = [stub EXCEPT !.pc = "body", !.calls = @ + 1, !.panicked = FALSE,
                            !.caught = FALSE, !.body_value = "none",
                            !.result = "none"]
    /\ UNCHANGED <<obj, interfaces, payload, count, owned, pc, local, nAddRef,
                   nRelease, shape, lastCall, freeCount, freedOn, uaf, vc, sync,
                   freeClock, qi, gen, exp>>

\* The body completes normally with value v.
BodyReturns(v) ==
    /\ stub.pc = "body"
    /\ LET r == quote_stub_call(stub.panic_behavior, [panicked |-> FALSE, value |-> v])
       IN  stub' = [stub EXCEPT !.pc = r.next, !.body_value = v,
                                !.result = r.result, !.caught = r.caught]
    /\ UNCHANGED <<obj, interfaces, payload, count, owned, pc, local, nAddRef,
                   nRelease, shape, lastCall, freeCount, freedOn, uaf, vc, sync,
                   freeClock, qi, gen, exp>>

\* The body panics.
BodyPanics ==
    /\ stub.pc = "body"
    /\ LET r == quote_stub_call(stub.panic_behavior,
                                [panicked |-> TRUE, value |-> "none"])
       IN  stub' = [stub EXCEPT !.pc = r.next, !.panicked = TRUE,
                                !.result = r.result, !.caught = r.caught]
    /\ UNCHANGED <<obj, interfaces, payload, count, owned, pc, local, nAddRef,
                   nRelease, shape, lastCall, freeCount, freedOn, uaf, vc, sync,
                   freeClock, qi, gen, exp>>

\* OnPanic::Abort, Err(_) arm: `let _ = write_all(&mut stderr.lock(), message)`;
\* the write may fail and its result is dropped.
AbortWrite(io_ok) ==
    /\ stub.pc = "abort_write"
    /\ stub' = [stub EXCEPT !.pc = "abort_call", !.write_attempted = TRUE,
                            !.stderr = IF io_ok THEN Append(@, stub.message) ELSE @]
    /\ UNCHANGED <<obj, interfaces, payload, count, owned, pc, local, nAddRef,
                   nRelease, shape, lastCall, freeCount, freedOn, uaf, vc, sync,
                   freeClock, qi, gen, exp>>

\* OnPanic::Abort, Err(_) arm: std::process::abort()
ProcessAbort ==
    /\ stub.pc = "abort_call"
    /\ stub' = [stub EXCEPT !.pc = "dead", !.process = "aborted"]
    /\ UNCHANGED <<obj, interfaces, payload, count, owned, pc, local, nAddRef,
                   nRelease, shape, lastCall, freeCount, freedOn, uaf, vc, sync,
                   freeClock, qi, gen, exp>>

\* OnPanic::Hresult, Err(_) arm: the fallback expression is the result.
EvalFallback ==
    /\ stub.pc = "fallback"
    /\ stub' = [stub EXCEPT !.pc = "returned",
                            !.result = eval_expr(stub.panic_behavior.expr)]
    /\ UNCHANGED <<obj, interfaces, payload, count, owned, pc, local, nAddRef,
                   nRelease, shape, lastCall, freeCount, freedOn, uaf, vc, sync,
                   freeClock, qi, gen, exp>>

\* OnPanic::Nothing: the panic has left the stub's code; unwinding out of
\* an `extern "system"` function is undefined, and a build either unwinds
\* into the foreign caller or aborts at the boundary.
PanicLeaves(outcome) ==
    /\ stub.pc = "escaped"
    /\ stub' = [stub EXCEPT !.pc = "gone", !.process = outcome]
    /\ UNCHANGED <<obj, interfaces, payload, count, owned, pc, local, nAddRef,
                   nRelease, shape, lastCall, freeCount, freedOn, uaf, vc, sync,
                   freeClock, qi, gen, exp>>

NextStub ==
    \/ \E item \in StubItems : StubGenerate(item)
    \/ StubCall
    \/ \E v \in BodyValues : BodyReturns(v)
    \/ BodyPanics
    \/ \E io_ok \in BOOLEAN : AbortWrite(io_ok)
    \/ ProcessAbort
    \/ EvalFallback
    \/ \E outcome \in {"unwinding_in_caller", "aborted"} : PanicLeaves(outcome)

SpecStub == Init /\ [][NextStub]_vars

(***************************************************************************)
(* #[derive(ComImpl)]: the struct declaration                              *)
(* (src/derive-com-impl/src/derive.rs, src/derive-com-impl/src/lib.rs)     *)
(***************************************************************************)
\* Fields of one struct declaration.
MaxFields == 3
\* Items in one #[com_impl] block.
MaxMethods == 2

\* The least element of a non-empty set of positions: where a loop that
\* returns at its first hit stops.
First(S) == CHOOSE i \in S : \A j \in S : i <= j

\* Types. kind: "Path" for a type path, "Ptr" for a raw pointer; stem: the
\* identifier of the path's last segment; angle: whether that segment has
\* angle-bracketed arguments; args: these arguments, each a type (path: it
\* is a type path; name: the tokens of its last identifier) or a lifetime.
TypeArg(name) == [kind |-> "Type", path |-> TRUE, name |-> name]
PtrArg == [kind |-> "Type", path |-> FALSE, name |-> <<>>]
LifetimeArg == [kind |-> "Lifetime", path |-> FALSE, name |-> <<>>]
PlainType(stem) == [kind |-> "Path", stem |-> stem, angle |-> FALSE, args |-> <<>>]
GenericType(stem, args) == [kind |-> "Path", stem |-> stem, angle |-> TRUE, args |-> args]
PointerType == [kind |-> "Ptr", stem |-> "", angle |-> FALSE, args |-> <<>>]
\* VTable<name>
VTableOf(name) == GenericType("VTable", <<TypeArg(name)>>)
RefcountType == PlainType("Refcount")

\* Items nested in an attribute's list.
WordItem(ident) == [kind |-> "Word", ident |-> ident, lit |-> "", value |-> <<>>]
StrItem(value) == [kind |-> "Literal", ident |-> "", lit |-> "Str", value |-> value]
IntItem == [kind |-> "Literal", ident |-> "", lit |-> "Int", value |-> <<>>]
\* #[repr(..)]
ReprAttr(nested) == Attr(<<"repr">>, "List", "", <<>>, nested)
\* #[interfaces(..)]
InterfacesListAttr(nested) == Attr(<<"interfaces">>, "List", "", <<>>, nested)
\* #[interfaces = "IDWriteFontFileStream"]
InterfacesValueAttr == Attr(<<"interfaces">>, "NameValue", "Str", StreamName, <<>>)

\* ComImpl::is_repr_c: some #[repr(..)] whose first item is the word C.
is_repr_c_unchecked(attrs) == TRUE
is_repr_c(attrs) ==
    \E i \in 1..Len(attrs) :
        /\ PathIs(attrs[i], "repr")
        /\ attrs[i].meta = "List"
        /\ Len(attrs[i].nested) > 0
        /\ attrs[i].nested[1].kind = "Word"
        /\ attrs[i].nested[1].ident = "C"

\* ComImpl::ty_stem: Option<&Ident>, as a sequence of at most one element.
ty_stem(ty) == IF ty.kind = "Path" THEN <<ty.stem>> ELSE <<>>

\* ComImpl::determine_vtbl_member: the first field whose type is a VTable.
determine_vtbl_member(fields) ==
    LET hits == { i \in 1..Len(fields) : ty_stem(fields[i].ty) = <<"VTable">> }
    IN  IF hits = {}
        THEN Err("Could not find a com_impl::VTable member")
        ELSE Ok(fields[First(hits)].ident)

\* ComImpl::determine_refcount_member: the first field whose type is a
\* Refcount.
determine_refcount_member(fields) ==
    LET hits == { i \in 1..Len(fields) : ty_stem(fields[i].ty) = <<"Refcount">> }
    IN  IF hits = {}
        THEN Err("Could not find a com_impl::Refcount member")
        ELSE Ok(fields[First(hits)].ident)

\* ComImpl::parse_members: struct Mem { name, ty } of every field that is
\* neither of the two members, in the fields' order.
parse_members_reversed(fields, vtbl, refc) ==
    LET kept == SelectSeq(fields, LAMBDA f : f.ident # vtbl /\ f.ident # refc)
    IN  [i \in 1..Len(kept) |->
            [name |-> kept[Len(kept) + 1 - i].ident, ty |-> kept[Len(kept) + 1 - i].ty]]
parse_members(fields, vtbl, refc) ==
    LET kept == SelectSeq(fields, LAMBDA f : f.ident # vtbl /\ f.ident # refc)
    IN  [i \in 1..Len(kept) |-> [name |-> kept[i].ident, ty |-> kept[i].ty]]

\* ComImpl::vtbl_generic: the one type argument of VTable<..>.
vtbl_generic(ty) ==
    IF ty.kind # "Path" \/ ty.stem # "VTable"
    THEN Err("A ComImpl struct must have a VTable member.")
    ELSE IF ~ty.angle \/ Len(ty.args) # 1
         THEN Err("Invalid generic arguments to VTable.")
         ELSE IF ty.args[1].kind # "Type"
              THEN Err("Invalid generic arguments to VTable.")
              ELSE Ok(ty.args[1])

\* syn::parse_str::<Type> on the tokens of a string literal: a path parses,
\* a path with a dangling separator does not.
parse_type(tokens) ==
    IF /\ Len(tokens) % 2 = 1
       /\ \A i \in 1..Len(tokens) : (i % 2 = 0) <=> (tokens[i] = "::")
    THEN Ok(tokens)
    ELSE Err("parse_str")

\* The items of #[interfaces(..)] as types, from item i on: a word is the
\* path of that name, a string literal is parsed as a type, anything else
\* is an error; collect() yields the first error.
RECURSIVE interfaces_of_list(_, _, _)
interfaces_of_list(nested, i, acc) ==
    IF i > Len(nested)
    THEN Ok(acc)
    ELSE LET m == nested[i]
         IN  IF m.kind = "Word"
             THEN interfaces_of_list(nested, i + 1, Append(acc, <<m.ident>>))
             ELSE IF m.kind = "Literal" /\ m.lit = "Str"
                  THEN IF parse_type(m.value).ok
                       THEN interfaces_of_list(nested, i + 1,
                                               Append(acc, parse_type(m.value).val))
                       ELSE parse_type(m.value)
                  ELSE Err("Bad syntax for #[interfaces]")

\* ComImpl::determine_interfaces on the struct's attributes and fields. The
\* first #[interfaces] attribute decides; without one, the type argument of
\* the vtbl member does. The schema handed on carries the type argument
\* whenever the member has one.
determine_interfaces_from(attrs, fields, vtbl) ==
    LET hits == { i \in 1..Len(attrs) : PathIs(attrs[i], "interfaces") }
        field == fields[First({ i \in 1..Len(fields) : fields[i].ident = vtbl })]
        generic == vtbl_generic(field.ty)
        vtbl_ty == IF generic.ok /\ generic.val.path THEN generic.val.name ELSE <<>>
    IN  IF hits # {}
        THEN LET attr == attrs[First(hits)]
                 items == interfaces_of_list(attr.nested, 1, <<>>)
             IN  IF attr.meta = "Invalid"
                 THEN Err("parse_meta")
                 ELSE IF attr.meta # "List"
                      THEN Err("Invalid syntax for #[interfaces]")
                      ELSE IF ~items.ok
                           THEN items
                           ELSE determine_interfaces(
                                    [interfaces |-> InterfacesAttr(items.val),
                                     vtbl_ty |-> vtbl_ty])
        ELSE IF ~generic.ok
             THEN generic
             ELSE IF ~generic.val.path
                  THEN Panic("unreachable!()")
                  ELSE determine_interfaces(
                           [interfaces |-> NoInterfacesAttr, vtbl_ty |-> vtbl_ty])

\* ComImpl::parse of derive.rs: the struct ComImpl of a declaration.
ComImpl_parse_struct(input) ==
    IF ~is_repr_c(input.attrs)
    THEN Err("Your struct *must* be #[repr(C)] for ComImpl.")
    ELSE IF input.data # "Struct" \/ input.fields_kind # "Named"
         THEN Err("ComImpl will only work with structs with named members.")
         ELSE LET vtbl_member == determine_vtbl_member(input.fields)
                  refc_member == determine_refcount_member(input.fields)
              IN  IF ~vtbl_member.ok THEN vtbl_member
                  ELSE IF ~refc_member.ok THEN refc_member
                  ELSE LET interfaces_ == determine_interfaces_from(
                                              input.attrs, input.fields, vtbl_member.val)
                       IN  IF ~interfaces_.ok THEN interfaces_
                           ELSE Ok([name |-> input.ident,
                                    vtbl_member |-> vtbl_member.val,
                                    refc_member |-> refc_member.val,
                                    other_members |->
                                        parse_members(input.fields, vtbl_member.val,
                                                      refc_member.val),
                                    interfaces |-> interfaces_.val])

\* Mem::quote_param, `#name: #ty`, and Mem::quote_init, `#name: #name`.
quote_param(m) == [name |-> m.name, ty |-> m.ty]
quote_init(m) == [field |-> m.name, from |-> m.name]

\* ComImpl::quote_create_raw: the constructor's parameters and the fields
\* of the struct expression it boxes.
quote_create_raw(com_impl) ==
    [params |-> [i \in 1..Len(com_impl.other_members) |->
                    quote_param(com_impl.other_members[i])],
     vtbl |-> [field |-> com_impl.vtbl_member,
               from |-> "<Self as com_impl::BuildVTable<_>>::static_vtable()"],
     refcount |-> [field |-> com_impl.refc_member, from |-> "Default::default()"],
     inits |-> [i \in 1..Len(com_impl.other_members) |->
                   quote_init(com_impl.other_members[i])]]

\* ComImpl::quote_iunknown_vtbl: const VTBL: IUnknownVtbl.
quote_iunknown_vtbl(com_impl) ==
    [AddRef |-> "Self::__com_impl__IUnknown__AddRef",
     Release |-> "Self::__com_impl__IUnknown__Release",
     QueryInterface |-> "Self::__com_impl__IUnknown__QueryInterface"]

\* ComImpl::quote_iunknown_impl: the three trampolines; QueryInterface
\* compares riid with the uuidof() of every interface.
quote_iunknown_impl(com_impl) ==
    [fns |-> <<"__com_impl__IUnknown__AddRef", "__com_impl__IUnknown__Release",
               "__com_impl__IUnknown__QueryInterface">>,
     is_equal_iid |-> com_impl.interfaces]

\* ComImpl::quote of derive.rs
ComImpl_quote_struct(com_impl) ==
    [items |-> <<"create_raw", "iunknown_vtbl", "iunknown_impl">>,
     create_raw |-> quote_create_raw(com_impl),
     iunknown_vtbl |-> quote_iunknown_vtbl(com_impl),
     iunknown_impl |-> quote_iunknown_impl(com_impl)]

\* expand_derive_com_impl: Result<TokenStream, String>
expand_derive_com_impl(input) ==
    LET com_impl == ComImpl_parse_struct(input)
    IN  IF com_impl.ok THEN Ok(ComImpl_quote_struct(com_impl.val)) ELSE com_impl

\* compile_error: `compile_error!(#message);` and nothing else.
compile_error(message) == [items |-> <<"compile_error">>, message |-> message]

\* `.unwrap_or_else(compile_error)` of derive_com_impl and com_impl: the
\* tokens handed back to the compiler. A macro that panicked hands back
\* none.
unwrap_or_else_compile_error(result) ==
    IF result.ok THEN result.val
    ELSE IF IsErr(result) THEN compile_error(result.err)
    ELSE [items |-> <<>>, panic |-> result.panic]

\* The struct declarations given to #[derive(ComImpl)].
FieldNames == <<"a", "b", "c", "d", "e">>
FieldTypes ==
    { VTableOf(<<"IDWriteFontFileStream", "Vtbl">>),
      VTableOf(<<"IUnknown", "Vtbl">>),
      RefcountType,
      PlainType("u64"),
      PointerType }
\* Vtbl members whose type argument gives no interface.
OddVtblTypes ==
    { VTableOf(<<"IDWriteFontFileStream">>),
      VTableOf(<<"Vtbl">>),
      PlainType("VTable"),
      GenericType("VTable", <<LifetimeArg>>),
      GenericType("VTable", <<PtrArg>>) }
NamedFields(tys) == [i \in 1..Len(tys) |-> [ident |-> FieldNames[i], ty |-> tys[i]]]
FieldLists ==
    { NamedFields(tys) : tys \in SeqsUpTo(FieldTypes, MaxFields) }
        \cup { NamedFields(<<ty, RefcountType, PlainType("u64")>>) : ty \in OddVtblTypes }
        \cup { NamedFields(<<VTableOf(<<"IDWriteFontFileStream", "Vtbl">>), RefcountType,
                             PlainType("u64"), GenericType("Vec", <<TypeArg(<<"u8">>)>>)>>),
               NamedFields(<<GenericType("Vec", <<TypeArg(<<"u8">>)>>),
                             VTableOf(<<"IDWriteFontFileStream", "Vtbl">>),
                             PlainType("u64"), RefcountType>>) }
StructAttrLists ==
    { <<>>,
      <<ReprAttr(<<WordItem("C")>>)>>,
      <<ReprAttr(<<WordItem("packed"), WordItem("C")>>)>>,
      <<ReprAttr(<<WordItem("C")>>), InterfacesListAttr(<<>>)>>,
      <<ReprAttr(<<WordItem("C")>>),
        InterfacesListAttr(<<WordItem("IDWriteFontFileStream")>>)>>,
      <<InterfacesListAttr(<<WordItem("IDWriteFontFileLoader"),
                             StrItem(<<"IDWriteFontFileStream">>)>>),
        ReprAttr(<<WordItem("C"), WordItem("packed")>>)>>,
      <<ReprAttr(<<WordItem("C")>>),
        InterfacesListAttr(<<WordItem("IDWriteFontFileLoader")>>),
        InterfacesListAttr(<<WordItem("IDWriteFontFileStream")>>)>>,
      <<ReprAttr(<<WordItem("C")>>), InterfacesListAttr(<<WordItem("IUnknown")>>)>>,
      <<ReprAttr(<<WordItem("C")>>),
        InterfacesListAttr(<<WordItem("IDWriteFontFileStream"),
                             StrItem(<<"IDWriteFontFileLoader", "::">>)>>)>>,
      <<ReprAttr(<<WordItem("C")>>), InterfacesListAttr(<<IntItem>>)>>,
      <<ReprAttr(<<WordItem("C")>>), InterfacesValueAttr>>,
      <<InterfacesListAttr(<<WordItem("IDWriteFontFileStream")>>)>> }
DeriveInputs ==
    [ident : {"FileStream"}, attrs : StructAttrLists, data : {"Struct"},
     fields_kind : {"Named"}, fields : FieldLists]
        \cup [ident : {"FileStream"}, attrs : StructAttrLists, data : {"Struct"},
              fields_kind : {"Unnamed", "Unit"}, fields : {<<>>}]
        \cup [ident : {"FileStream"}, attrs : StructAttrLists, data : {"Enum", "Union"},
              fields_kind : {"Named"}, fields : {<<>>}]

(***************************************************************************)
(* #[com_impl]: the interface block                                        *)
(* (src/derive-com-impl/src/com_impl.rs, src/derive-com-impl/src/lib.rs)   *)
(***************************************************************************)
\* ComFunction::parse_all from item i on: every item must be a method, and
\* the first method that fails to parse fails the block.
RECURSIVE parse_all_from(_, _, _)
parse_all_from(items, i, fns) ==
    IF i > Len(items)
    THEN Ok(fns)
    ELSE IF items[i].kind # "Method"
         THEN Err("Only methods may be in a com_impl body")
         ELSE LET f == ComFunction_parse(items[i])
              IN  IF f.ok THEN parse_all_from(items, i + 1, Append(fns, f.val)) ELSE f

RECURSIVE parse_all_skipping(_, _, _)
parse_all_skipping(items, i, fns) ==
    IF i > Len(items)
    THEN Ok(fns)
    ELSE IF items[i].kind = "Method" /\ ComFunction_parse(items[i]).ok
         THEN parse_all_skipping(items, i + 1,
                                 Append(fns, ComFunction_parse(items[i]).val))
         ELSE parse_all_skipping(items, i + 1, fns)

\* ComFunction::parse_all
parse_all_best_effort(item) == parse_all_skipping(item.items, 1, <<>>)
parse_all(item) == parse_all_from(item.items, 1, <<>>)

\* ComImpl::has_parent: true unless an argument is the word no_parent.
has_parent_always(args) == TRUE
has_parent(args) ==
    ~\E i \in 1..Len(args) : args[i].kind = "Word" /\ args[i].ident = "no_parent"

\* ComImpl::com_ty: the trait path of `impl <path> for <type>`.
com_ty(item) ==
    CASE item.trait_ = "Some" -> Ok(item.trait_path)
      [] item.trait_ = "Bang" -> Err("Cannot anti-impl a COM interface. (impl !T)")
      [] OTHER -> Err("You must specify an interface to implement. (impl ISomething for MyTy)")

\* ComImpl::com_vtbl: format!("{}Vtbl", last.ident)
com_vtbl(ty) == ty \o <<"Vtbl">>

\* ComImpl::com_ty_name: the identifier of the path's last segment.
com_ty_name(ty) == ty

\* ComImpl::parse of com_impl.rs: the struct ComImpl of an impl block.
ComImpl_parse_impl(args, item) ==
    IF ~item.unsafety
    THEN Err("Implementing COM interfaces is inherently unsafe. Please use unsafe impl to signify your understanding of this fact.")
    ELSE LET ty == com_ty(item)
             functions == parse_all(item)
         IN  IF ~ty.ok THEN ty
             ELSE IF ~functions.ok THEN functions
             ELSE Ok([has_parent |-> has_parent(args),
                      self_ty |-> item.self_ty,
                      com_ty |-> ty.val,
                      com_vtbl |-> com_vtbl(ty.val),
                      com_ty_name |-> com_ty_name(ty.val),
                      functions |-> functions.val])

\* ComImpl::quote_parent_entry: `parent: <Self as BuildVTable<_>>::VTBL,`
\* or nothing.
quote_parent_entry(info) ==
    IF info.has_parent
    THEN <<[slot |-> "parent", value |-> "<Self as com_impl::BuildVTable<_>>::VTBL"]>>
    ELSE <<>>

\* ComImpl::quote_vtbl_impl: const VTBL: #com_vtbl = #com_vtbl { .. }
quote_vtbl_impl(info) ==
    [com_vtbl |-> info.com_vtbl,
     parent |-> quote_parent_entry(info),
     entries |-> [i \in 1..Len(info.functions) |->
                     quote_vtbl_entry(info.com_ty_name, info.functions[i].com_name)]]

\* ComFunction::quote_stub: the stub's name, how it borrows `this`, the
\* body it calls and the policy its call is wrapped in.
quote_stub(f, context) ==
    [name |-> stub_name(context.com_ty_name, f.com_name),
     this |-> IF f.is_mut THEN "&mut *(this as *mut Self)"
                          ELSE "&*(this as *const Self)",
     calls |-> body_name(context.com_ty_name, f.com_name),
     panic_behavior |-> f.panic_behavior]

\* ComFunction::quote_body: the body's name and its receiver.
quote_body(f, context) ==
    [name |-> body_name(context.com_ty_name, f.com_name),
     selfarg |-> IF f.is_mut THEN "&mut self" ELSE "&self"]

\* ComImpl::quote_fn_impls: every stub, then every body.
quote_fn_impls(info) ==
    [stubs |-> [i \in 1..Len(info.functions) |-> quote_stub(info.functions[i], info)],
     bodies |-> [i \in 1..Len(info.functions) |-> quote_body(info.functions[i], info)]]

\* ComImpl::quote of com_impl.rs
ComImpl_quote_impl(info) ==
    [items |-> <<"vtbl_impl", "fn_impls">>,
     vtbl_impl |-> quote_vtbl_impl(info),
     fn_impls |-> quote_fn_impls(info)]

\* expand_com_impl: Result<TokenStream, String>
expand_com_impl(args, item) ==
    IF item.kind # "Impl"
    THEN Err("#[com_impl] may only be used on an impl block")
    ELSE LET info == ComImpl_parse_impl(args, item)
         IN  IF info.ok THEN Ok(ComImpl_quote_impl(info.val)) ELSE info

\* The items of the blocks given to #[com_impl].
GetFileSizeIdent == <<"g", "e", "t", "_", "f", "i", "l", "e", "_", "s", "i", "z", "e">>
GetLastWriteTimeIdent ==
    <<"g", "e", "t", "_", "l", "a", "s", "t", "_", "w", "r", "i", "t", "e", "_",
      "t", "i", "m", "e">>
ReadFileFragmentIdent ==
    <<"r", "e", "a", "d", "_", "f", "i", "l", "e", "_",
      "f", "r", "a", "g", "m", "e", "n", "t">>
ReleaseFileFragmentIdent ==
    <<"r", "e", "l", "e", "a", "s", "e", "_", "f", "i", "l", "e", "_",
      "f", "r", "a", "g", "m", "e", "n", "t">>
GetFileSizeName == <<"G", "e", "t", "F", "i", "l", "e", "S", "i", "z", "e">>

\* The block of src/test-com-impl/src/file_stream.rs.
FileStreamBlock ==
    << PlainMethod(GetFileSizeIdent, <<>>),
       PlainMethod(GetLastWriteTimeIdent, <<>>),
       PlainMethod(ReadFileFragmentIdent, <<>>),
       PlainMethod(ReleaseFileFragmentIdent, <<>>) >>

\* The entry points of IDWriteFontFileStreamVtbl besides its parent slot:
\* those the block of file_stream.rs implements.
StreamVtblEntries ==
    { determine_name(FileStreamBlock[i]).val : i \in 1..Len(FileStreamBlock) }

GoodMethods ==
    { PlainMethod(GetFileSizeIdent, <<>>),
      [PlainMethod(ReadFileFragmentIdent, <<PanicAbortAttr>>)
          EXCEPT !.receiver = "&mut self"],
      PlainMethod(<<"s", "i", "z", "e">>, <<ComNameAttr(GetFileSizeName)>>) }
FlawedMethods ==
    { [PlainMethod(GetFileSizeIdent, <<>>) EXCEPT !.receiver = "self"],
      [PlainMethod(GetFileSizeIdent, <<>>) EXCEPT !.receiver = "none"],
      [PlainMethod(GetFileSizeIdent, <<>>) EXCEPT !.variadic = TRUE],
      [PlainMethod(GetFileSizeIdent, <<>>) EXCEPT !.generics = 1],
      [PlainMethod(GetFileSizeIdent, <<>>) EXCEPT !.where_clause = TRUE],
      [PlainMethod(GetFileSizeIdent, <<>>) EXCEPT !.constness = TRUE],
      [PlainMethod(GetFileSizeIdent, <<>>) EXCEPT !.asyncness = TRUE],
      PlainMethod(GetFileSizeIdent, <<DocAttr>>),
      [PlainMethod(GetFileSizeIdent, <<>>) EXCEPT !.kind = "Const"] }
BlockItems == GoodMethods \cup FlawedMethods
BlockBodies ==
    SeqsUpTo(BlockItems, MaxMethods)
        \cup { FileStreamBlock,
               Append(FileStreamBlock,
                      PlainMethod(<<"s", "i", "z", "e">>, <<ComNameAttr(GetFileSizeName)>>)) }

\* impl blocks: `unsafe impl IDWriteFontFileStream for FileStream { .. }`
\* with every body, and the other forms of item with the example bodies.
ImplBlock(unsafety, trait_, body) ==
    [kind |-> "Impl", unsafety |-> unsafety, trait_ |-> trait_,
     trait_path |-> StreamName, self_ty |-> "FileStream", items |-> body]
ComImplItems ==
    { ImplBlock(TRUE, "Some", body) : body \in BlockBodies }
        \cup { ImplBlock(u, t, body) :
                 u \in BOOLEAN, t \in {"Some", "Bang", "None"},
                 body \in { FileStreamBlock, <<>> } }
        \cup { [ImplBlock(TRUE, "Some", FileStreamBlock) EXCEPT !.kind = "Struct"] }
\* The arguments of #[com_impl(..)].
ComImplArgs ==
    { <<>>,
      <<WordItem("no_parent")>>,
      <<WordItem("parent")>>,
      <<StrItem(<<"no_parent">>)>>,
      <<WordItem("parent"), WordItem("no_parent")>> }

\* Values passed to an emitted constructor.
ArgValues == {"x", "y"}

(***************************************************************************)
(* One expansion of either macro, and a call of the emitted constructor.   *)
(***************************************************************************)
\* derive_com_impl (lib.rs): expand_derive_com_impl(&input)
\* .unwrap_or_else(compile_error)
DeriveComImpl(input) ==
    /\ exp.phase = "none"
    /\ exp' = [phase |-> "expanded", macro |-> "derive", input |-> input,
               args |-> <<>>,
               result |-> expand_derive_com_impl(input),
               output |-> unwrap_or_else_compile_error(expand_derive_com_impl(input)),
               object |-> <<>>]
    /\ UNCHANGED <<obj, interfaces, payload, count, owned, pc, local, nAddRef,
                   nRelease, shape, lastCall, freeCount, freedOn, uaf, vc, sync,
                   freeClock, qi, gen, stub>>

\* com_impl (lib.rs): expand_com_impl(&args, &item).unwrap_or_else(compile_error)
ComImplBlock(args, item) ==
    /\ exp.phase = "none"
    /\ exp' = [phase |-> "expanded", macro |-> "com_impl", input |-> item,
               args |-> args,
               result |-> expand_com_impl(args, item),
               output |-> unwrap_or_else_compile_error(expand_com_impl(args, item)),
               object |-> <<>>]
    /\ UNCHANGED <<obj, interfaces, payload, count, owned, pc, local, nAddRef,
                   nRelease, shape, lastCall, freeCount, freedOn, uaf, vc, sync,
                   freeClock, qi, gen, stub>>

\* A call of the emitted create_raw: each field of the boxed struct is
\* initialised from the expression the constructor names for it, a payload
\* field from the parameter of that name.
CallCreateRaw(values) ==
    /\ exp.phase = "expanded"
    /\ exp.macro = "derive"
    /\ exp.result.ok
    /\ LET ctor == exp.output.create_raw
           arg(name) == values[CHOOSE j \in 1..Len(ctor.params) :
                                   ctor.params[j].name = name]
       IN  /\ DOMAIN values = 1..Len(ctor.params)
           /\ exp' = [exp EXCEPT
                        !.phase = "constructed",
                        !.args = values,
                        !.object =
                            [vtbl |-> ctor.vtbl,
                             refcount |-> [field |-> ctor.refcount.field,
                                           value |-> create_raw(values).refcount],
                             payload |-> [i \in 1..Len(ctor.inits) |->
                                             [field |-> ctor.inits[i].field,
                                              value |-> arg(ctor.inits[i].from)]]]]
    /\ UNCHANGED <<obj, interfaces, payload, count, owned, pc, local, nAddRef,
                   nRelease, shape, lastCall, freeCount, freedOn, uaf, vc, sync,
                   freeClock, qi, gen, stub>>

NextExpand ==
    \/ \E input \in DeriveInputs : DeriveComImpl(input)
    \/ \E args \in ComImplArgs, item \in ComImplItems : ComImplBlock(args, item)
    \/ \E values \in SeqsUpTo(ArgValues, MaxFields) : CallCreateRaw(values)

SpecExpand == Init /\ [][NextExpand]_vars

(***************************************************************************)
(* Reference counting: properties                                          *)
(***************************************************************************)
AllIdle == \A t \in Threads : pc[t] = "idle"

C3_InitialCountOne ==
    (obj = "live" /\ nAddRef = 0 /\ nRelease = 0) => count = 1

C3_Witness ==
    /\ obj = "live"
    /\ nAddRef = 0
    /\ nRelease = 0
    /\ Len(interfaces) = 3
    /\ Len(payload) = 2

\* C4: AddRef is an acquire fetch-and-add, Release a release
\* fetch-and-subtract, and every payload write a thread performed before
\* its Release happens-before the deallocation.
C4_WritesHappenBeforeFree ==
    /\ AddRefOrdering = "Acquire"
    /\ ReleaseOrdering = "Release"
    /\ (obj = "freed" => \A u \in Threads : freeClock[u] >= vc[u][u])

(***************************************************************************)
(* QueryInterface: properties                                              *)
(***************************************************************************)
Queried == qi.op = "QueryInterface"

\* C5: QueryInterface with a non-null output slot and the identifier of an
\* interface of the Interface Set, in particular IUnknown's whatever else
\* the object implements, returns S_OK and writes the object's pointer.
C5_QueryKnownInterface ==
    (Queried /\ ~qi.ppv_null) =>
        /\ (qi.riid \in IIDsOf(interfaces) => (qi.hr = "S_OK" /\ qi.slot = "this"))
        /\ (qi.riid = "00000000-0000-0000-c000-000000000046"
                => (qi.hr = "S_OK" /\ qi.slot = "this"))

C5_Witness ==
    /\ Queried
    /\ ~qi.ppv_null
    /\ qi.riid = "00000000-0000-0000-c000-000000000046"
    /\ Len(interfaces) = 3
    /\ qi.hr = "S_OK"

\* C6: QueryInterface with a non-null output slot and an identifier of no
\* interface of the Interface Set returns E_NOINTERFACE and writes null.
C6_QueryUnknownInterface ==
    (Queried /\ ~qi.ppv_null /\ qi.riid \notin IIDsOf(interfaces)) =>
        (qi.hr = "E_NOINTERFACE" /\ qi.slot = "null")

C6_Witness ==
    /\ Queried
    /\ ~qi.ppv_null
    /\ qi.riid = uuidof(LoaderName)
    /\ interfaces = <<IUnknownName, StreamName>>
    /\ qi.hr = "E_NOINTERFACE"

\* C7: QueryInterface with a null output slot returns E_POINTER whatever
\* the identifier, writes nothing and leaves the reference count as it was.
C7_QueryNullSlot ==
    (Queried /\ qi.ppv_null) =>
        /\ qi.hr = "E_POINTER"
        /\ ~qi.null_write
        /\ qi.slot = "uninit"
        /\ qi.after = qi.before

C7_Witness ==
    /\ Queried
    /\ qi.ppv_null
    /\ qi.riid \in IIDsOf(interfaces)
    /\ qi.before = 2
    /\ qi.hr = "E_POINTER"

(***************************************************************************)
(* Stubs and method names: properties                                      *)
(***************************************************************************)
\* C8: a body that completes normally makes the stub return the body's
\* result under every policy; a body that panics makes the stub, under
\* Abort, write the diagnostic and abort the process without returning,
\* under Hresult, return the fallback value with the process running on,
\* and with no policy the panic is not caught and leaves the stub.
C8_StubFailurePolicy ==
    (stub.pc \notin {"none", "ready", "body"}) =>
        /\ (~stub.panicked =>
                /\ stub.pc = "returned"
                /\ stub.result = stub.body_value
                /\ stub.result \in BodyValues
                /\ stub.process = "running")
        /\ ((stub.panicked /\ stub.panic_behavior.kind = "Abort") =>
                /\ stub.pc \in {"abort_write", "abort_call", "dead"}
                /\ stub.caught
                /\ stub.result = "none"
                /\ (stub.pc # "abort_write" => stub.write_attempted)
                /\ stub.stderr \in {<<>>, <<stub.message>>}
                /\ (stub.pc = "dead" <=> stub.process = "aborted"))
        /\ ((stub.panicked /\ stub.panic_behavior.kind = "Hresult") =>
                /\ stub.pc \in {"fallback", "returned"}
                /\ stub.caught
                /\ stub.process = "running"
                /\ (stub.pc = "returned" =>
                        stub.result = stub.panic_behavior.expr[Len(stub.panic_behavior.expr)]))
        /\ ((stub.panicked /\ stub.panic_behavior.kind = "Nothing") =>
                /\ stub.pc \in {"escaped", "gone"}
                /\ ~stub.caught
                /\ stub.result = "none"
                /\ stub.stderr = <<>>)

C8_Witness ==
    /\ stub.pc = "dead"
    /\ stub.panicked
    /\ stub.panic_behavior.kind = "Abort"
    /\ stub.process = "aborted"
    /\ stub.stderr =
         << <<"User-implemented COM method for ", "IDWriteFontFileStream", "::",
              "G", "e", "t", "F", "i", "l", "e", "S", "i", "z", "e",
              " panicked. Aborting!">> >>

\* The derivation as C9 words it: the identifier is split at underscores,
\* the first letter of each segment is upper-cased, every other character
\* stays, and the segments are concatenated.
RECURSIVE PascalCaseOf(_, _, _, _)
PascalCaseOf(cs, i, awaiting_letter, acc) ==
    IF i > Len(cs) THEN acc
    ELSE LET c == cs[i]
         IN  IF c = "_" THEN PascalCaseOf(cs, i + 1, TRUE, acc)
             ELSE IF awaiting_letter /\ (IsLower(c) \/ IsUpper(c))
                  THEN PascalCaseOf(cs, i + 1, FALSE, Append(acc, to_ascii_uppercase(c)))
                  ELSE PascalCaseOf(cs, i + 1, awaiting_letter, Append(acc, c))

IsAsciiIdent(cs) ==
    \A i \in 1..Len(cs) : IsLower(cs[i]) \/ IsUpper(cs[i]) \/ IsDigit(cs[i]) \/ cs[i] = "_"
HasComName(attrs) == \E i \in 1..Len(attrs) : PathIs(attrs[i], "com_name")
OnlyPanicAttrs(attrs) == \A i \in 1..Len(attrs) : PathIs(attrs[i], "panic")

\* C9: for a method without a name override whose identifier is made of
\* ASCII letters, digits and underscores, the derived name is the
\* identifier split at underscores with the first letter of each segment
\* upper-cased and nothing else changed; an identifier with any other
\* character is a generation error.
C9_DerivedName ==
    (gen.phase # "none" /\ OnlyPanicAttrs(gen.item.attrs)) =>
        IF IsAsciiIdent(gen.item.ident)
        THEN gen.name.ok /\ gen.name.val = PascalCaseOf(gen.item.ident, 1, TRUE, <<>>)
        ELSE IsErr(gen.name)

\* The value of the first #[com_name] attribute of a method.
FirstComName(attrs) ==
    attrs[CHOOSE i \in 1..Len(attrs) :
            /\ PathIs(attrs[i], "com_name")
            /\ \A j \in 1..(i - 1) : ~PathIs(attrs[j], "com_name")].value

\* C10: for a method that carries a name override, the name that results
\* is exactly the override's value, whatever the identifier, and the stub,
\* the body and the dispatch-table slot are named from it.
C10_OverrideIsTheName ==
    (gen.phase # "none" /\ HasComName(gen.item.attrs)) =>
        LET override == FirstComName(gen.item.attrs)
        IN  /\ (gen.name.ok => gen.name.val = override)
            /\ (gen.result.ok => gen.result.val.com_name = override)
            /\ (gen.phase = "quoted" =>
                    /\ gen.stub = <<"__com_impl_stub__", "IDWriteFontFileStream", "__">>
                                      \o override
                    /\ gen.body = <<"__com_impl_body__", "IDWriteFontFileStream", "__">>
                                      \o override
                    /\ gen.entry.slot = override
                    /\ gen.entry.value = gen.stub)

C10_Witness ==
    /\ gen.phase = "quoted"
    /\ gen.item.ident \in ExampleIdents
    /\ gen.item.attrs = <<PanicAbortAttr, ComNameAttr(<<"a", "_", "a">>)>>
    /\ gen.entry.slot = <<"a", "_", "a">>

(***************************************************************************)
(* The Layout Binder: properties                                           *)
(***************************************************************************)
Derived == exp.phase # "none" /\ exp.macro = "derive"

\* The first #[interfaces] attribute of a struct, and the interfaces its
\* items name.
HasInterfacesAttr(attrs) == \E i \in 1..Len(attrs) : PathIs(attrs[i], "interfaces")
FirstInterfacesAttr(attrs) ==
    attrs[First({ i \in 1..Len(attrs) : PathIs(attrs[i], "interfaces") })]
ListedInterfaces(attr) ==
    [i \in 1..Len(attr.nested) |->
        IF attr.nested[i].kind = "Word" THEN <<attr.nested[i].ident>>
                                        ELSE attr.nested[i].value]
\* The fields of a struct whose type is named VTable / Refcount.
FieldsOfType(fields, stem) ==
    { i \in 1..Len(fields) : fields[i].ty.kind = "Path" /\ fields[i].ty.stem = stem }

\* C11: the Interface Set compiled into QueryInterface is, for a struct
\* with an #[interfaces(..)] list, IUnknown followed by exactly the listed
\* interfaces in their order, whatever the vtbl member's type; for a struct
\* without one, the vtbl member's type argument ends in Vtbl and the set is
\* IUnknown alone when the rest of the name is IUnknown, and otherwise
\* IUnknown followed by the interface of that name.
C11_InterfaceSetResolution ==
    (Derived /\ exp.result.ok) =>
        LET set == exp.output.iunknown_impl.is_equal_iid
            fields == exp.input.fields
            vtbl_ty == fields[First(FieldsOfType(fields, "VTable"))].ty.args[1].name
        IN  IF HasInterfacesAttr(exp.input.attrs)
            THEN set = <<IUnknownName>>
                         \o ListedInterfaces(FirstInterfacesAttr(exp.input.attrs))
            ELSE /\ vtbl_ty[Len(vtbl_ty)] = "Vtbl"
                 /\ set = IF SubSeq(vtbl_ty, 1, Len(vtbl_ty) - 1) = IUnknownName
                          THEN <<IUnknownName>>
                          ELSE <<IUnknownName, SubSeq(vtbl_ty, 1, Len(vtbl_ty) - 1)>>

C11_Witness ==
    /\ Derived
    /\ exp.result.ok
    /\ HasInterfacesAttr(exp.input.attrs)
    /\ exp.input.fields[1].ty = VTableOf(<<"IUnknown", "Vtbl">>)
    /\ exp.output.iunknown_impl.is_equal_iid
         = <<IUnknownName, LoaderName, StreamName>>

\* C12: a struct is accepted only with exactly one field of type VTable
\* and exactly one of type Refcount; with none or more than one of either
\* the derive yields a generation error and nothing else.
C12_ExactlyOneOfEach ==
    Derived =>
        LET vtables == Cardinality(FieldsOfType(exp.input.fields, "VTable"))
            refcounts == Cardinality(FieldsOfType(exp.input.fields, "Refcount"))
        IN  /\ (exp.result.ok => (vtables = 1 /\ refcounts = 1))
            /\ ((vtables # 1 \/ refcounts # 1) =>
                    (IsErr(exp.result) /\ exp.output.items = <<"compile_error">>))

\* The struct carries a #[repr(..)] attribute that lists C.
DeclaredReprC(attrs) ==
    \E i \in 1..Len(attrs) :
        /\ PathIs(attrs[i], "repr")
        /\ \E k \in 1..Len(attrs[i].nested) :
              attrs[i].nested[k].kind = "Word" /\ attrs[i].nested[k].ident = "C"

\* C13: the derive on a struct that is not declared #[repr(C)] yields a
\* generation error and only that: no constructor, no IUnknown table and
\* no trampoline is emitted.
C13_ReprCRequired ==
    (Derived /\ ~DeclaredReprC(exp.input.attrs)) =>
        /\ IsErr(exp.result)
        /\ exp.result.err = "Your struct *must* be #[repr(C)] for ComImpl."
        /\ exp.output = compile_error(exp.result.err)
        /\ \A i \in 1..Len(exp.output.items) :
              exp.output.items[i] \notin {"create_raw", "iunknown_vtbl", "iunknown_impl"}

C13_Witness ==
    /\ Derived
    /\ ~DeclaredReprC(exp.input.attrs)
    /\ exp.input.attrs # <<>>
    /\ exp.input.data = "Struct"
    /\ Cardinality(FieldsOfType(exp.input.fields, "VTable")) = 1
    /\ Cardinality(FieldsOfType(exp.input.fields, "Refcount")) = 1
    /\ Len(exp.input.fields) = 3
    /\ exp.output.items = <<"compile_error">>

(***************************************************************************)
(* The Interface Method Binder: properties                                 *)
(***************************************************************************)
Bound == exp.phase # "none" /\ exp.macro = "com_impl"

\* The ways a method is unfit for COM that C14 names, and the diagnostic
\* of each.
Flaws(m) ==
    { f \in {"receiver", "variadic", "generic", "const", "async"} :
        CASE f = "receiver" -> m.receiver \notin {"&self", "&mut self"}
          [] f = "variadic" -> m.variadic
          [] f = "generic" -> m.generics > 0
          [] f = "const" -> m.constness
          [] f = "async" -> m.asyncness }
Diagnostic(f) ==
    CASE f = "receiver" -> "A COM method must take self by ref. (fn {})"
      [] f = "variadic" -> "Variadic methods are not allowed in COM"
      [] f = "generic" ->
             "Generic types and lifetime parameters are not allowed on COM methods."
      [] f = "const" -> "COM methods may not be const fns"
      [] f = "async" -> "COM methods may not be async fns"
\* The output holds no dispatch table, stub or body.
NothingGenerated(output) ==
    \A i \in 1..Len(output.items) : output.items[i] \notin {"vtbl_impl", "fn_impls"}

\* C14: a block with a method that takes self by value or has no receiver,
\* is variadic, has generic parameters, is const or is async yields a
\* generation error and no dispatch table or stubs; in an
\* `unsafe impl Interface for Type` block whose earlier methods are well
\* formed, a method with one of these flaws alone gets that flaw's own
\* diagnostic, and the five diagnostics differ.
C14_MalformedMethodsRejected ==
    Bound =>
        LET items == exp.input.items
            methods == { k \in 1..Len(items) : items[k].kind = "Method" }
        IN  /\ (\E k \in methods : Flaws(items[k]) # {}) =>
                    /\ IsErr(exp.result)
                    /\ exp.output = compile_error(exp.result.err)
                    /\ NothingGenerated(exp.output)
            /\ \A k \in methods, f \in {"receiver", "variadic", "generic", "const", "async"} :
                    ( /\ exp.input.kind = "Impl"
                      /\ exp.input.unsafety
                      /\ exp.input.trait_ = "Some"
                      /\ Flaws(items[k]) = {f}
                      /\ ~items[k].where_clause
                      /\ \A j \in 1..(k - 1) : items[j] \in GoodMethods )
                        => (IsErr(exp.result) /\ exp.result.err = Diagnostic(f))
            /\ \A f, g \in {"receiver", "variadic", "generic", "const", "async"} :
                    f # g => Diagnostic(f) # Diagnostic(g)

C14_Witness ==
    /\ Bound
    /\ Len(exp.input.items) = 2
    /\ exp.input.items[1] \in GoodMethods
    /\ Flaws(exp.input.items[2]) = {"generic"}
    /\ exp.result = Err("Generic types and lifetime parameters are not allowed on COM methods.")
    /\ exp.output.items = <<"compile_error">>

\* The foreign name of a method: its name override if it has one, else
\* its identifier in PascalCase.
ForeignName(m) ==
    IF HasComName(m.attrs) THEN FirstComName(m.attrs)
                           ELSE PascalCaseOf(m.ident, 1, TRUE, <<>>)
NoParentArg(args) ==
    \E i \in 1..Len(args) : args[i].kind = "Word" /\ args[i].ident = "no_parent"

\* C15: the VTBL constant emitted for a block has the slot
\* `parent: <Self as BuildVTable<_>>::VTBL` exactly when #[com_impl] was
\* not given the argument no_parent, and after it one slot per method of
\* the block, in order, named by the method's foreign name and holding
\* Self::<the stub emitted for that method>.
C15_VtblConstant ==
    (Bound /\ exp.result.ok) =>
        LET vtbl == exp.output.vtbl_impl
            stubs == exp.output.fn_impls.stubs
            items == exp.input.items
        IN  /\ vtbl.com_vtbl = <<"IDWriteFontFileStream", "Vtbl">>
            /\ vtbl.parent =
                   IF NoParentArg(exp.args)
                   THEN <<>>
                   ELSE <<[slot |-> "parent",
                           value |-> "<Self as com_impl::BuildVTable<_>>::VTBL"]>>
            /\ Len(vtbl.entries) = Len(items)
            /\ Len(stubs) = Len(items)
            /\ \A k \in 1..Len(items) :
                   /\ vtbl.entries[k].slot = ForeignName(items[k])
                   /\ vtbl.entries[k].value = stubs[k].name
                   /\ stubs[k].name =
                          <<"__com_impl_stub__", "IDWriteFontFileStream", "__">>
                              \o ForeignName(items[k])

C15_Witness ==
    /\ Bound
    /\ exp.result.ok
    /\ exp.args = <<WordItem("parent"), WordItem("no_parent")>>
    /\ exp.input.items = FileStreamBlock
    /\ exp.output.vtbl_impl.parent = <<>>
    /\ Len(exp.output.vtbl_impl.entries) = 4

\* C16: a block is accepted only if every entry point of the interface's
\* dispatch table is implemented by exactly one of its methods; a block
\* that leaves one out, or has two methods of the same foreign name, gets
\* a generation error from #[com_impl].
C16_EveryEntryExactlyOnce ==
    (Bound /\ exp.input.kind = "Impl") =>
        LET items == exp.input.items
            implementing(e) ==
                { k \in 1..Len(items) :
                    items[k].kind = "Method" /\ ForeignName(items[k]) = e }
        IN  (\E e \in StreamVtblEntries : Cardinality(implementing(e)) # 1)
                => (IsErr(exp.result) /\ exp.output.items = <<"compile_error">>)

(***************************************************************************)
(* Both binders: properties                                                *)
(***************************************************************************)
CodeItems == {"create_raw", "iunknown_vtbl", "iunknown_impl", "vtbl_impl", "fn_impls"}
EmitsCode(output) == \E i \in 1..Len(output.items) : output.items[i] \in CodeItems

\* C17: an expansion of either macro in which parsing reports a violation
\* emits one compile_error! with that message and no constructor, table,
\* stub or body; code is emitted only when the whole input parsed: for a
\* struct, repr(C), named fields, both members and the interfaces; for a
\* block, `unsafe impl Interface for Type` and every item a method that
\* parses, none left out of the output.
C17_AllOrNothing ==
    (exp.phase # "none") =>
        /\ IsErr(exp.result) =>
                /\ exp.output = [items |-> <<"compile_error">>, message |-> exp.result.err]
                /\ ~EmitsCode(exp.output)
        /\ EmitsCode(exp.output) <=> exp.result.ok
        /\ (exp.macro = "derive" /\ EmitsCode(exp.output)) =>
                /\ exp.output.items = <<"create_raw", "iunknown_vtbl", "iunknown_impl">>
                /\ DeclaredReprC(exp.input.attrs)
                /\ exp.input.data = "Struct" /\ exp.input.fields_kind = "Named"
                /\ FieldsOfType(exp.input.fields, "VTable") # {}
                /\ FieldsOfType(exp.input.fields, "Refcount") # {}
        /\ (exp.macro = "com_impl" /\ EmitsCode(exp.output)) =>
                /\ exp.output.items = <<"vtbl_impl", "fn_impls">>
                /\ exp.input.kind = "Impl" /\ exp.input.unsafety
                /\ exp.input.trait_ = "Some"
                /\ \A k \in 1..Len(exp.input.items) :
                       /\ exp.input.items[k].kind = "Method"
                       /\ Flaws(exp.input.items[k]) = {}
                       /\ ~exp.input.items[k].where_clause
                       /\ OnlyPanicAttrs(exp.input.items[k].attrs)
                            \/ HasComName(exp.input.items[k].attrs)
                /\ Len(exp.output.vtbl_impl.entries) = Len(exp.input.items)
                /\ Len(exp.output.fn_impls.stubs) = Len(exp.input.items)
                /\ Len(exp.output.fn_impls.bodies) = Len(exp.input.items)

C17_Witness ==
    /\ Bound
    /\ Len(exp.input.items) = 2
    /\ exp.input.items[1] \in GoodMethods
    /\ exp.input.items[2].kind = "Const"
    /\ IsErr(exp.result)
    /\ exp.output = compile_error("Only methods may be in a com_impl body")

\* C18: the parameters of the emitted create_raw are the struct's fields
\* other than the vtbl member and the refcount member, with their types,
\* in declaration order; for a struct with one VTable and one Refcount
\* field these are the fields of any other type; the constructor
\* initialises every such field, and a call gives the i-th of them the
\* i-th argument, the refcount member its initial value of 1 and the vtbl
\* member the static table.
C18_PayloadInDeclarationOrder ==
    (Derived /\ exp.result.ok) =>
        LET fields == exp.input.fields
            ctor == exp.output.create_raw
            others == SelectSeq(fields, LAMBDA f : f.ident \notin {ctor.vtbl.field,
                                                                   ctor.refcount.field})
            untyped == SelectSeq(fields, LAMBDA f :
                           ~(f.ty.kind = "Path" /\ f.ty.stem \in {"VTable", "Refcount"}))
        IN  /\ ctor.vtbl.field = fields[First(FieldsOfType(fields, "VTable"))].ident
            /\ ctor.refcount.field = fields[First(FieldsOfType(fields, "Refcount"))].ident
            /\ Len(ctor.params) = Len(others)
            /\ Len(ctor.inits) = Len(others)
            /\ \A i \in 1..Len(others) :
                   /\ ctor.params[i] = [name |-> others[i].ident, ty |-> others[i].ty]
                   /\ ctor.inits[i].field = others[i].ident
            /\ ( /\ Cardinality(FieldsOfType(fields, "VTable")) = 1
                 /\ Cardinality(FieldsOfType(fields, "Refcount")) = 1 ) => others = untyped
            /\ exp.phase = "constructed" =>
                   /\ Len(exp.args) = Len(others)
                   /\ exp.object.payload =
                          [i \in 1..Len(others) |->
                              [field |-> others[i].ident, value |-> exp.args[i]]]
                   /\ exp.object.refcount = [field |-> ctor.refcount.field, value |-> 1]
                   /\ exp.object.vtbl.field = ctor.vtbl.field

C18_Witness ==
    /\ Derived
    /\ exp.phase = "constructed"
    /\ Len(exp.input.fields) = 4
    /\ exp.input.fields[2].ty.stem = "VTable"
    /\ exp.args = <<"x", "y">>
    /\ exp.object.payload = <<[field |-> "a", value |-> "x"], [field |-> "c", value |-> "y"]>>

(***************************************************************************)
(* The reference count as an invariant, and QueryInterface's frame         *)
(***************************************************************************)
RECURSIVE SumOwned(_)
SumOwned(T) ==
    IF T = {} THEN 0
    ELSE LET t == CHOOSE x \in T : TRUE IN owned[t] + SumOwned(T \ {t})
\* Threads inside Release, past its fetch_sub.
InRelease == { t \in Threads : pc[t] = "released" }
\* Release calls that have returned.
ReturnedReleases == nRelease - Cardinality(InRelease)

\* C19 as stated: in every state in which the object is not freed, the
\* stored count is 1 plus the completed AddRef calls minus the completed
\* Release calls, is the number of references owned, and is at least 1.
C19_CountAtEveryState ==
    (obj = "live") =>
        /\ count = 1 + nAddRef - ReturnedReleases
        /\ count = SumOwned(Threads)
        /\ count >= 1

\* C19, amended: in every state in which the object is not freed, the
\* stored count is 1 plus the AddRef calls made minus the Release calls
\* that have performed their decrement, and is the number of references
\* owned (a reference is given up when Release is called on it); it is at
\* least 1 unless a Release has decremented it to zero and is about to
\* free the object; when no Release is in progress, this is the count as
\* stated.
C19_CountBetweenOperations ==
    (obj = "live") =>
        /\ count = 1 + nAddRef - ReturnedReleases - Cardinality(InRelease)
        /\ count = SumOwned(Threads)
        /\ (count >= 1 \/ \E t \in InRelease : local[t] = 0)
        /\ (InRelease = {} =>
                (count = 1 + nAddRef - ReturnedReleases /\ count >= 1))

C19_Witness ==
    /\ obj = "live"
    /\ nAddRef = 2
    /\ nRelease = 2
    /\ InRelease = {"t1"}
    /\ owned = [t \in Threads |-> IF t = "t2" THEN 1 ELSE 0]
    /\ count = 1
    /\ shape = "X"

\* C20: no QueryInterface call changes the stored reference count or the
\* references owned, whichever of S_OK, E_NOINTERFACE and E_POINTER it
\* returns; the count after the call is the count before it.
C20_QueryKeepsCount ==
    [][(qi' # qi) =>
          /\ qi'.hr \in {"S_OK", "E_NOINTERFACE", "E_POINTER"}
          /\ count' = count
          /\ qi'.before = count /\ qi'.after = count
          /\ owned' = owned
          /\ nAddRef' = nAddRef /\ nRelease' = nRelease]_vars

C20_Witness ==
    /\ Queried
    /\ qi.hr = "S_OK"
    /\ qi.riid = uuidof(StreamName)
    /\ qi.before = 3
    /\ count = 3
    /\ nAddRef = 2

(***************************************************************************)
(* Termination: the object is freed once its references are released       *)
(***************************************************************************)

\* AddRef is one fetch_add and Release one fetch_sub followed by a test of
\* the value it returned: neither has a loop, a lock or a wait, so a thread
\* inside Release that is scheduled takes its next step.
Fairness == \A t \in Threads : WF_vars(ReleaseFinish(t))

\* The object's lifetime with every thread inside a call scheduled.
SpecLive == Init /\ [][Next]_vars /\ Fairness

\* Every reference handed out has had Release called on it, and with no
\* reference left no thread can take a new one.
AllReleased == obj # "none" /\ \A t \in Threads : owned[t] = 0

\* What a call needs in order to take its step, in the state of the calling
\* thread alone.
NeverBlocks ==
    \A t \in Threads :
        /\ (owned[t] > 0 /\ pc[t] = "idle" /\ nAddRef < MaxAddRefs)
              => ENABLED AddRef(t)
        /\ (owned[t] > 0 /\ pc[t] = "idle") => ENABLED ReleaseDec(t)
        /\ (pc[t] = "released") => ENABLED ReleaseFinish(t)

\* C21: with every thread's steps weakly fair, if the threads owning
\* references eventually release each of them and take no new ones, the
\* object's storage is eventually freed; and a thread able to call AddRef
\* or Release, or inside Release, can always take its step whatever the
\* other threads are doing.
C21_EventuallyFreed ==
    /\ []NeverBlocks
    /\ (<>[]AllReleased) => <>(obj = "freed")

C21_Witness ==
    /\ obj = "freed"
    /\ AllReleased
    /\ nAddRef = MaxAddRefs
    /\ nRelease = MaxAddRefs + 1
    /\ freeCount = 1
    /\ \A t \in Threads : pc[t] = "idle"
    /\ shape = "X"

(***************************************************************************)
(* The counter at the ends of its range                                    *)
(* (src/com-impl/src/lib.rs, Refcount::add_ref / Refcount::release)        *)
(***************************************************************************)

\* Release calls on references the caller does not own that the model
\* follows.
MaxOverReleases == 1

U32Max == Pow2(U32Bits) - 1
UsizeMax == Pow2(UsizeBits) - 1

\* `fetch_add(1, Acquire) as u32 + 1` in a given build: fetch_add always
\* wraps the stored usize; the `+ 1` on the truncated value wraps in a
\* build without overflow checks and panics in a build with them.
add_ref_in(c, overflow_checks) ==
    [new |-> WrapUsize(c + 1),
     panicked |-> overflow_checks /\ AsU32(c) + 1 > U32Max,
     ret |-> add_ref(c).ret]

\* `fetch_sub(1, Release) as u32 - 1` in a given build: fetch_sub always
\* wraps the stored usize; the `- 1` on the truncated value wraps in a
\* build without overflow checks and panics in a build with them.
release_in_saturating(c, overflow_checks) ==
    [new |-> IF c = 0 THEN 0 ELSE c - 1,
     panicked |-> FALSE,
     ret |-> IF c = 0 THEN 0 ELSE release(c).ret]
release_in(c, overflow_checks) ==
    [new |-> release(c).new,
     panicked |-> overflow_checks /\ AsU32(c) - 1 < 0,
     ret |-> release(c).ret]

\* Release calls made so far on references the caller did not own.
OverReleases == nRelease - (1 + nAddRef - SumOwned(Threads))

\* __com_impl__IUnknown__AddRef by a thread that owns a reference, as often
\* as it takes to carry the count past 32 bits. A panic leaves the call
\* before it returns a value.
WideAddRef(t, overflow_checks) ==
    /\ obj = "live"
    /\ owned[t] > 0
    /\ pc[t] = "idle"
    /\ nAddRef <= Pow2(U32Bits)
    /\ LET r == add_ref_in(count, overflow_checks)
           m == Rmw(AddRefOrdering, vc[t], sync)
       IN  /\ count' = r.new
           /\ lastCall' = [op |-> "AddRef", ret |-> r.ret, prev |-> count,
                           panicked |-> r.panicked]
           /\ pc' = [pc EXCEPT ![t] = IF r.panicked THEN "panicked" ELSE "idle"]
           /\ vc' = [vc EXCEPT ![t] = m.vc]
           /\ sync' = m.sync
    /\ owned' = [owned EXCEPT ![t] = @ + 1]
    /\ nAddRef' = nAddRef + 1
    /\ shape' = IF shape = "A" THEN "A" ELSE "X"
    /\ UNCHANGED <<obj, interfaces, payload, local, nRelease, freeCount,
                   freedOn, uaf, freeClock, qi,
                   gen, stub, exp>>

\* __com_impl__IUnknown__Release up to `(*ptr).refcount.release()`, by a
\* thread that owns a reference or (a caller's error) by one that does
\* not. A panic leaves the call before `if count == 0`.
AnyRelease(t, overflow_checks) ==
    /\ obj = "live"
    /\ pc[t] = "idle"
    /\ owned[t] > 0 \/ OverReleases < MaxOverReleases
    /\ LET r == release_in(count, overflow_checks)
           m == Rmw(ReleaseOrdering, vc[t], sync)
       IN  /\ count' = r.new
           /\ local' = [local EXCEPT ![t] = r.ret]
           /\ lastCall' = [op |-> "Release", ret |-> r.ret, prev |-> count,
                           panicked |-> r.panicked]
           /\ pc' = [pc EXCEPT ![t] = IF r.panicked THEN "panicked" ELSE "released"]
           /\ vc' = [vc EXCEPT ![t] = m.vc]
           /\ sync' = m.sync
    /\ owned' = [owned EXCEPT ![t] = IF @ > 0 THEN @ - 1 ELSE 0]
    /\ nRelease' = nRelease + 1
    /\ shape' = IF shape \in {"A", "R"} THEN "R" ELSE "X"
    /\ UNCHANGED <<obj, interfaces, payload, nAddRef, freeCount, freedOn,
                   uaf, freeClock, qi,
                   gen, stub, exp>>

\* The counter driven through both ends of its range.
NextWrap ==
    \/ \E t \in Threads, schema \in Schemas, args \in PayloadArgs :
          CreateRaw(t, schema, args)
    \/ \E t \in Threads, overflow_checks \in BOOLEAN :
          WideAddRef(t, overflow_checks)
    \/ \E t \in Threads, overflow_checks \in BOOLEAN :
          AnyRelease(t, overflow_checks)
    \/ \E t \in Threads : ReleaseFinish(t)

SpecWrap == Init /\ [][NextWrap]_vars

\* The count as a mathematical integer after the last call: one for
\* create_raw, plus the AddRef calls, minus the Release calls.
TrueCount == 1 + nAddRef - nRelease
\* The same before the last call.
TrueCountBefore ==
    IF lastCall.op = "AddRef" THEN TrueCount - 1 ELSE TrueCount + 1
InU32Range(n) == 1 <= n /\ n <= U32Max

\* C22: the value AddRef or Release returns is the counter value read
\* before the update, truncated to 32 bits, plus or minus one in unsigned
\* 32-bit arithmetic (which wraps, or panics in a build with overflow
\* checks); it is the true count after the call whenever the count stays
\* within 1..2^32-1 across the call, and is not once the count exceeds
\* 2^32-1; a Release on a counter already 0 wraps the stored counter to the
\* largest usize, returns no valid count (it panics or returns 2^32-1) and
\* does not take the deallocating branch.
C22_ReturnValueArithmetic ==
    (lastCall.op # "none") =>
        LET low == AsU32(lastCall.prev)
        IN  /\ (lastCall.op = "AddRef") =>
                  IF low + 1 <= U32Max
                  THEN ~lastCall.panicked /\ lastCall.ret = low + 1
                  ELSE lastCall.panicked \/ lastCall.ret = 0
            /\ (lastCall.op = "Release") =>
                  IF low >= 1
                  THEN ~lastCall.panicked /\ lastCall.ret = low - 1
                  ELSE lastCall.panicked \/ lastCall.ret = U32Max
            /\ (InU32Range(TrueCountBefore) /\ InU32Range(TrueCount)) =>
                  ~lastCall.panicked /\ lastCall.ret = TrueCount
            /\ (TrueCount > U32Max) =>
                  lastCall.panicked \/ lastCall.ret # TrueCount
            /\ (lastCall.op = "Release" /\ lastCall.prev = 0) =>
                  /\ count = UsizeMax
                  /\ lastCall.panicked \/ lastCall.ret = U32Max
                  /\ lastCall.panicked \/ ~ReleaseFrees(lastCall.ret)
                  /\ TrueCount < 0
                  /\ \A t \in Threads :
                        (pc[t] = "released" /\ local[t] = lastCall.ret)
                            => ~ReleaseFrees(local[t])

C22_Witness ==
    /\ obj = "live"
    /\ lastCall = [op |-> "Release", ret |-> U32Max, prev |-> 0,
                   panicked |-> FALSE]
    /\ count = UsizeMax
    /\ nAddRef = 0
    /\ nRelease = 2
    /\ pc = [t \in Threads |-> IF t = "t1" THEN "released" ELSE "idle"]
    /\ local["t1"] = 0
    /\ freeCount = 0

(***************************************************************************)
(* Method attributes: the order they are written in                        *)
(***************************************************************************)

\* The attributes of the method last given to ComFunction::parse.
ParsedAttrs == gen.item.attrs
IsNameOverride(attr) == PathIs(attr, "com_name")
\* Neither #[com_name] nor #[panic].
IsForeignAttr(attr) == ~PathIs(attr, "com_name") /\ ~PathIs(attr, "panic")
NameOverrideAt == { i \in 1..Len(ParsedAttrs) : IsNameOverride(ParsedAttrs[i]) }
ForeignAt == { i \in 1..Len(ParsedAttrs) : IsForeignAttr(ParsedAttrs[i]) }
\* A list with the attributes at i and j exchanged.
Swapped(attrs, i, j) == [attrs EXCEPT ![i] = attrs[j], ![j] = attrs[i]]
InvalidAttribute == Err("Invalid attribute #[{}] on COM method")

\* C23: determine_name scans the attributes in order. It fails with
\* "Invalid attribute" at the first attribute that is neither #[com_name]
\* nor #[panic] when no #[com_name] stands before it; at the first
\* #[com_name] with nothing foreign before it the scan ends, with a result
\* that attribute alone decides and that no later attribute changes. So a
\* method with a well-formed #[com_name] followed by a foreign attribute
\* is accepted, and the same attributes with the two exchanged are
\* rejected.
C23_AttributeOrderMatters ==
    (gen.phase # "none") =>
        /\ (ForeignAt # {} /\ \A k \in NameOverrideAt : k > First(ForeignAt))
              => /\ gen.name = InvalidAttribute
                 /\ gen.result = InvalidAttribute
        /\ (NameOverrideAt # {} /\ \A j \in ForeignAt : j > First(NameOverrideAt))
              => LET k == First(NameOverrideAt)
                     attr == ParsedAttrs[k]
                 IN  /\ gen.name # InvalidAttribute
                     /\ gen.name =
                           IF attr.meta = "Invalid" THEN Err("parse_meta")
                           ELSE IF attr.meta = "NameValue" /\ attr.lit = "Str"
                                THEN Ident_new(attr.value)
                                ELSE Err("Invalid syntax for #[com_name] attribute")
                     /\ \A later \in AttrLists :
                           Len(later) + k <= MaxAttrs =>
                              determine_name(PlainMethod(gen.item.ident,
                                  SubSeq(ParsedAttrs, 1, k) \o later)) = gen.name
                     /\ \A j \in ForeignAt :
                           (gen.result.ok /\ \A i \in 1..(j - 1) : i \notin ForeignAt)
                              => ComFunction_parse(PlainMethod(gen.item.ident,
                                     Swapped(ParsedAttrs, k, j))) = InvalidAttribute

C23_Witness ==
    /\ gen.phase = "quoted"
    /\ ParsedAttrs = <<ComNameAttr(<<"a", "_", "a">>), DocAttr>>
    /\ gen.result.ok
    /\ gen.result.val.com_name = <<"a", "_", "a">>
    /\ gen.entry # <<>>
    /\ ~ComFunction_parse(PlainMethod(gen.item.ident,
                                      <<DocAttr, ComNameAttr(<<"a", "_", "a">>)>>)).ok

====
